---- MODULE Spec2Model ----
(***************************************************************************)
(* Model of generate_colophon.py (ColophonGenerator).                      *)
(*                                                                         *)
(* Text is a sequence of characters; a character is a one-character        *)
(* string, or "U+XXXX" for a code point outside ASCII.  The regular        *)
(* expressions of the source are transcribed as syntax trees and run by a  *)
(* backtracking matcher with the semantics of Python's re module.          *)
(***************************************************************************)
EXTENDS Integers, Sequences, FiniteSets, TLC

\* ------------------------------------------------------------------------
\* Characters and the str methods the source uses
\* ------------------------------------------------------------------------

\* The characters of a string, as a sequence and as a set.
Chars(str) == [i \in 1..Len(str) |-> SubSeq(str, i, i)]
CharSet(str) == {SubSeq(str, i, i) : i \in 1..Len(str)}

LowerLetters == "abcdefghijklmnopqrstuvwxyz"
UpperLetters == "ABCDEFGHIJKLMNOPQRSTUVWXYZ"
AsciiLower == CharSet(LowerLetters)
AsciiUpper == CharSet(UpperLetters)
AsciiLetters == CharSet("abcdefghijklmnopqrstuvwxyzABCDEFGHIJKLMNOPQRSTUVWXYZ")
Digits == CharSet("0123456789")

\* Code points outside ASCII that the model's documents use:
\*   U+00DF  LATIN SMALL LETTER SHARP S (lower-case; upper "SS", title "Ss")
\*   U+1F600 GRINNING FACE, U+2728 SPARKLES (inside the emoji ranges)
\*   U+2013  EN DASH, U+2014 EM DASH
\* and U+0060, the backtick, which a TLA+ string cannot hold.
Backtick == "U+0060"
SharpS == "U+00DF"
EnDash == "U+2013"
EmDash == "U+2014"

\* The characters \s and str.strip()/str.split() treat as whitespace.
Whitespace == {" ", "\n", "\t"}

\* The letter of the string to at the place c has in the string from.
Mapped(c, from, to) ==
  SubSeq(to, CHOOSE i \in 1..Len(from) : SubSeq(from, i, i) = c,
             CHOOSE i \in 1..Len(from) : SubSeq(from, i, i) = c)

\* str.lower() of one character (a sequence: case mappings may change length).
LowerChar(c) ==
  IF c \in AsciiUpper THEN <<Mapped(c, UpperLetters, LowerLetters)>> ELSE <<c>>

\* str.upper() of one character.
UpperChar(c) ==
  CASE c \in AsciiLower -> <<Mapped(c, LowerLetters, UpperLetters)>>
    [] c = SharpS -> <<"S", "S">>
    [] OTHER -> <<c>>

\* The title-case mapping of one character.
TitleChar(c) ==
  IF c = SharpS THEN <<"S", "s">> ELSE UpperChar(c)

\* Cased characters (those str.title() and str.isupper() look at).
IsCased(c) == c \in AsciiLetters \/ c = SharpS

\* c.isupper() for a one-character string.
IsUpperChar(c) == c \in AsciiUpper

\* \w of the re module (str patterns: Unicode word characters).
IsWordChar(c) ==
  c \in CharSet("abcdefghijklmnopqrstuvwxyzABCDEFGHIJKLMNOPQRSTUVWXYZ0123456789_") \/ c = SharpS

\* The least and the greatest element of a set of numbers.
Least(S) == CHOOSE x \in S : \A y \in S : x <= y
Greatest(S) == CHOOSE x \in S : \A y \in S : x >= y

\* The concatenation of the sequences ss[lo..hi].
RECURSIVE FlattenRange(_, _, _)
FlattenRange(ss, lo, hi) ==
  CASE lo > hi -> <<>>
    [] lo = hi -> ss[lo]
    [] OTHER ->
         FlattenRange(ss, lo, (lo + hi) \div 2) \o FlattenRange(ss, (lo + hi) \div 2 + 1, hi)

Flatten(ss) == FlattenRange(ss, 1, Len(ss))

\* str.lower()
Lower(s) == Flatten([i \in 1..Len(s) |-> LowerChar(s[i])])

\* str.upper()
Upper(s) == Flatten([i \in 1..Len(s) |-> UpperChar(s[i])])

\* str.title(): a cased character is title-cased when the previous character
\* is not cased, and lower-cased otherwise.
Title(s) ==
  Flatten([i \in 1..Len(s) |->
     CASE ~IsCased(s[i]) -> <<s[i]>>
       [] IsCased(s[i]) /\ i > 1 /\ IsCased(s[i - 1]) -> LowerChar(s[i])
       [] OTHER -> TitleChar(s[i])])

\* The places of s that hold no whitespace.
Inked(s) == {i \in 1..Len(s) : s[i] \notin Whitespace}

\* str.strip()
Strip(s) ==
  IF Inked(s) = {} THEN <<>> ELSE SubSeq(s, Least(Inked(s)), Greatest(Inked(s)))

\* str.rstrip("/")
RECURSIVE RStripSlash(_)
RStripSlash(s) ==
  IF s # <<>> /\ s[Len(s)] = "/" THEN RStripSlash(SubSeq(s, 1, Len(s) - 1)) ELSE s

\* str.startswith / str.endswith
StartsWith(s, p) == Len(s) >= Len(p) /\ SubSeq(s, 1, Len(p)) = p
EndsWith(s, p) == Len(s) >= Len(p) /\ SubSeq(s, Len(s) - Len(p) + 1, Len(s)) = p

\* p in s (substring test)
Contains(s, p) == \E i \in 1..(Len(s) - Len(p) + 1) : SubSeq(s, i, i + Len(p) - 1) = p

\* The places where sep occurs in s.
Occurrences(s, sep) == {i \in 1..(Len(s) - Len(sep) + 1) : SubSeq(s, i, i + Len(sep) - 1) = sep}

\* str.split(sep) for a non-empty separator: the pieces between occurrences.
RECURSIVE SplitOn(_, _)
SplitOn(s, sep) ==
  IF Occurrences(s, sep) = {} THEN <<s>>
  ELSE <<SubSeq(s, 1, Least(Occurrences(s, sep)) - 1)>>
       \o SplitOn(SubSeq(s, Least(Occurrences(s, sep)) + Len(sep), Len(s)), sep)

\* The places of s where a word starts: no whitespace there, and the start of
\* s or whitespace before; and the place where the word that starts at i ends.
WordStarts(s) == {i \in Inked(s) : i = 1 \/ s[i - 1] \in Whitespace}
WordEnd(s, i) == Least({j \in i..Len(s) : j = Len(s) \/ s[j + 1] \in Whitespace})

\* The elements of a set of numbers in increasing order.
Ascending(S) == [k \in 1..Cardinality(S) |-> CHOOSE x \in S : Cardinality({y \in S : y < x}) = k - 1]

\* The words that start at the places starts, in order.
WordsAt(s, starts) == [k \in 1..Len(starts) |-> SubSeq(s, starts[k], WordEnd(s, starts[k]))]

\* str.split(): the maximal runs of non-whitespace characters.
SplitWhitespace(s) == WordsAt(s, Ascending(WordStarts(s)))

\* sep.join(parts)
Join(parts, sep) ==
  Flatten([i \in 1..Len(parts) |-> IF i = 1 THEN parts[i] ELSE sep \o parts[i]])

\* str.replace(a, b) for one-character a
ReplaceChar(s, a, b) == [i \in 1..Len(s) |-> IF s[i] = a THEN b ELSE s[i]]

\* ------------------------------------------------------------------------
\* Regular expressions: syntax trees
\* ------------------------------------------------------------------------

\* one character out of a set / not out of a set
In(S) == [t |-> "ch", set |-> S, neg |-> FALSE]
NotIn(S) == [t |-> "ch", set |-> S, neg |-> TRUE]
Ch(c) == [t |-> "ch", set |-> {c}, neg |-> FALSE]
\* . (any character but a newline; any character under DOTALL)
Dot == [t |-> "dot"]
\* \s and \S, \w
Space == [t |-> "ch", set |-> Whitespace, neg |-> FALSE]
NonSpace == [t |-> "ch", set |-> Whitespace, neg |-> TRUE]
WordCh == [t |-> "word"]
\* concatenation, alternation (tried left to right)
Cat(rs) == [t |-> "seq", rs |-> rs]
Alt(rs) == [t |-> "alt", rs |-> rs]
\* a literal string
Lit(str) == [t |-> "lit", str |-> Chars(str)]
\* repetition: max = -1 is unbounded; greedy or lazy
Rep(r, min, max, greedy) == [t |-> "rep", r |-> r, min |-> min, max |-> max, greedy |-> greedy]
Star(r) == [t |-> "rep", r |-> r, min |-> 0, max |-> -1, greedy |-> TRUE]
Plus(r) == [t |-> "rep", r |-> r, min |-> 1, max |-> -1, greedy |-> TRUE]
Opt(r) == [t |-> "rep", r |-> r, min |-> 0, max |-> 1, greedy |-> TRUE]
LazyPlus(r) == [t |-> "rep", r |-> r, min |-> 1, max |-> -1, greedy |-> FALSE]
\* capturing group number n
Grp(n, r) == [t |-> "grp", n |-> n, r |-> r]
\* ^ $ \Z \b and the lookahead (?=r)
Bol == [t |-> "bol"]
Eol == [t |-> "eol"]
EndZ == [t |-> "endz"]
WordB == [t |-> "wb"]
Ahead(r) == [t |-> "ahead", r |-> r]

\* Flags of a pattern: re.IGNORECASE, re.MULTILINE, re.DOTALL.
NoFlags == [ic |-> FALSE, ml |-> FALSE, da |-> FALSE]
FlagM == [ic |-> FALSE, ml |-> TRUE, da |-> FALSE]
FlagI == [ic |-> TRUE, ml |-> FALSE, da |-> FALSE]
FlagIS == [ic |-> TRUE, ml |-> FALSE, da |-> TRUE]

\* The source's patterns have at most four groups.
NoGroups == <<<<0, 0>>, <<0, 0>>, <<0, 0>>, <<0, 0>>>>
NoMatch == [ok |-> FALSE]

\* ------------------------------------------------------------------------
\* Regular expressions: the matcher
\*
\* A matcher state is a position in the text and the groups captured so
\* far. Matching a node from a state gives the sequence of the states it
\* can end in, in the order in which Python's backtracking engine would try
\* them (the first alternative first; the longest repetition first when
\* greedy, the shortest first when lazy). The first state of the sequence
\* for the whole pattern is therefore the match Python reports.
\*
\* Under IGNORECASE the matcher runs on the lower-cased text (one character
\* for one character, so that positions are those of the text) and compares
\* it with the lower-cased characters of the pattern.
\* ------------------------------------------------------------------------

\* Evaluated(x) is true, and x has been computed once it has been tested:
\* the steps of a function are then computed one after the other, as the
\* source runs them, instead of one inside the other.
Evaluated(x) == x = x

\* The text the matcher runs on.
Subject(fl, s) == IF fl.ic THEN [i \in 1..Len(s) |-> LowerChar(s[i])[1]] ELSE s

\* The character c of the subject against the character x of the pattern.
SameChar(x, c, fl) == x = c \/ (fl.ic /\ LowerChar(x) = <<c>>)

\* The character c of the subject against a one-character node.
CharMatches(node, c, fl) ==
  CASE node.t = "ch" -> node.neg # (\E x \in node.set : SameChar(x, c, fl))
    [] node.t = "dot" -> fl.da \/ c # "\n"
    [] node.t = "word" -> IsWordChar(c)

IsCharNode(node) == node.t \in {"ch", "dot", "word"}

\* \b at position i
AtWordBoundary(s, i) ==
  (i > 1 /\ IsWordChar(s[i - 1])) # (i <= Len(s) /\ IsWordChar(s[i]))

\* The first position in lo..hi whose character the node does not match,
\* or hi + 1.
RunEnd(s, fl, node, lo, hi) ==
  Least({j \in lo..hi : ~CharMatches(node, s[j], fl)} \cup {hi + 1})

\* The last position a repetition of at most max characters from i can take.
RunLimit(s, i, max) == IF max < 0 \/ i + max - 1 > Len(s) THEN Len(s) ELSE i + max - 1

\* The states after a run of one-character matches that can end anywhere
\* from lo to run: the longest first when greedy.
RunStates(st, lo, run, greedy) ==
  [j \in 1..(run - lo + 1) |-> [st EXCEPT !.pos = IF greedy THEN run - j + 1 ELSE lo + j - 1]]

\* The states of a repetition that may stop at st or go on to the states more.
RepStates(st, more, min, greedy) ==
  CASE min > 0 -> more
    [] min = 0 /\ greedy -> more \o <<st>>
    [] OTHER -> <<st>> \o more

\* The states inner of the body of group n entered at position i, with the
\* group recorded.
Captured(inner, n, i) ==
  [j \in 1..Len(inner) |-> [inner[j] EXCEPT !.caps[n] = <<i, inner[j].pos>>]]

\* Ends: the states node can end in from state st.
\* EndsAll: the same from each state of a sequence, in order.
\* EndsSeq: the nodes rs[lo..hi] one after the other (by halving).
RECURSIVE Ends(_, _, _, _)
RECURSIVE EndsAll(_, _, _, _)
RECURSIVE EndsSeq(_, _, _, _, _, _)

EndsAll(s, fl, node, sts) ==
  Flatten([j \in 1..Len(sts) |-> Ends(s, fl, node, sts[j])])

EndsSeq(s, fl, rs, lo, hi, sts) ==
  CASE sts = <<>> -> <<>>
    [] sts # <<>> /\ lo = hi -> EndsAll(s, fl, rs[lo], sts)
    [] OTHER ->
         EndsSeq(s, fl, rs, (lo + hi) \div 2 + 1, hi,
                 EndsSeq(s, fl, rs, lo, (lo + hi) \div 2, sts))

Ends(s, fl, node, st) ==
  CASE IsCharNode(node) ->
         IF st.pos <= Len(s) /\ CharMatches(node, s[st.pos], fl)
         THEN <<[st EXCEPT !.pos = st.pos + 1]>> ELSE <<>>
    [] node.t = "lit" ->
         IF /\ st.pos + Len(node.str) - 1 <= Len(s)
            /\ \A j \in 1..Len(node.str) : SameChar(node.str[j], s[st.pos + j - 1], fl)
         THEN <<[st EXCEPT !.pos = st.pos + Len(node.str)]>> ELSE <<>>
    [] node.t = "seq" -> EndsSeq(s, fl, node.rs, 1, Len(node.rs), <<st>>)
    [] node.t = "alt" ->
         Flatten([j \in 1..Len(node.rs) |-> Ends(s, fl, node.rs[j], st)])
    [] node.t = "rep" /\ IsCharNode(node.r) ->
         RunStates(st, st.pos + node.min,
                   RunEnd(s, fl, node.r, st.pos, RunLimit(s, st.pos, node.max)),
                   node.greedy)
    [] node.t = "rep" /\ ~IsCharNode(node.r) /\ node.max = 0 -> <<st>>
    [] node.t = "rep" /\ ~IsCharNode(node.r) /\ node.max # 0 ->
         RepStates(st,
                   EndsSeq(s, fl,
                           <<node.r, Rep(node.r, IF node.min > 0 THEN node.min - 1 ELSE 0,
                                         IF node.max > 0 THEN node.max - 1 ELSE node.max,
                                         node.greedy)>>,
                           1, 2, <<st>>),
                   node.min, node.greedy)
    [] node.t = "grp" -> Captured(Ends(s, fl, node.r, st), node.n, st.pos)
    [] node.t = "bol" ->
         IF st.pos = 1 \/ (fl.ml /\ s[st.pos - 1] = "\n") THEN <<st>> ELSE <<>>
    [] node.t = "eol" ->
         IF \/ st.pos = Len(s) + 1
            \/ (~fl.ml /\ st.pos = Len(s) /\ s[Len(s)] = "\n")
            \/ (fl.ml /\ st.pos <= Len(s) /\ s[st.pos] = "\n")
         THEN <<st>> ELSE <<>>
    [] node.t = "endz" -> IF st.pos = Len(s) + 1 THEN <<st>> ELSE <<>>
    [] node.t = "wb" -> IF AtWordBoundary(s, st.pos) THEN <<st>> ELSE <<>>
    [] node.t = "ahead" -> IF Ends(s, fl, node.r, st) # <<>> THEN <<st>> ELSE <<>>

\* A match object: where it starts and ends (end exclusive) and its groups.
MatchOf(ends, i) ==
  IF ends # <<>>
  THEN [ok |-> TRUE, start |-> i, end |-> ends[1].pos, caps |-> ends[1].caps]
  ELSE NoMatch

\* The matches of re at every position of the subject s: entry i is the
\* match that starts at position i, or NoMatch.
MatchesAt(re, fl, s) ==
  [i \in 1..(Len(s) + 1) |-> MatchOf(Ends(s, fl, re, [pos |-> i, caps |-> NoGroups]), i)]

\* The positions from i on where a match of the table all starts.
Hits(all, i) == {j \in i..Len(all) : all[j].ok}

\* The first match of the table all that starts at position i or later.
FirstFrom(all, i) == IF Hits(all, i) = {} THEN NoMatch ELSE all[Least(Hits(all, i))]

\* The non-overlapping matches of the table all from position i on, left to
\* right: the first one starts at the first hit j, and the scan goes on where
\* it ends (after an empty match, one character further).
RECURSIVE NextMatches(_, _)
RECURSIVE MatchesFrom(_, _)
NextMatches(all, i) ==
  IF Hits(all, i) = {} THEN <<>> ELSE MatchesFrom(all, Least(Hits(all, i)))
MatchesFrom(all, j) ==
  <<all[j]>> \o NextMatches(all, IF all[j].end > j THEN all[j].end ELSE j + 1)

\* What a search does: "match" (re.match), "search" (re.search) or "all"
\* (re.finditer).
Found(all, mode) ==
  CASE mode = "match" -> all[1]
    [] mode = "search" -> FirstFrom(all, 1)
    [] mode = "all" -> NextMatches(all, 1)

\* re.match, re.search and re.finditer (as a list) of re in s.
Regex(mode, re, fl, s) ==
  IF Evaluated(re) /\ Evaluated(s) THEN Found(MatchesAt(re, fl, Subject(fl, s)), mode) ELSE NoMatch

ReMatch(re, fl, s) == Regex("match", re, fl, s)
ReSearch(re, fl, s) == Regex("search", re, fl, s)
FindIter(re, fl, s) == Regex("all", re, fl, s)

\* None where the source has an optional str: a sequence that is no text
\* (its one element is not a character), so that it compares with texts.
None == <<"None">>

\* None where the source has an optional dict, so that it compares with dicts.
NoneDict == [none |-> TRUE]

\* The truth value of an optional string: neither None nor empty.
Truthy(x) == x # None /\ x # <<>>

\* m.group(0) and m.group(n); a group that took no part is None.
Group0(s, m) == SubSeq(s, m.start, m.end - 1)
Group(s, m, n) ==
  IF m.caps[n] = <<0, 0>> THEN None ELSE SubSeq(s, m.caps[n][1], m.caps[n][2] - 1)

\* list[:n]
Take(list, n) == IF Len(list) > n THEN SubSeq(list, 1, n) ELSE list

\* re.sub(re, repl, s, count, flags).  What replaces a match is one of the
\* templates "" and r"\1", the function capitalize_after_marker ("upper"),
\* the lambda of the second bullet substitution (". upper"), or the text
\* ". "; count = 0 replaces every match.
ReSub(re, fl, repl, s, count) ==
  LET Replacement(m) ==
        CASE repl = "" -> <<>>
          [] repl = "\\1" -> Group(s, m, 1)
          [] repl = "upper" -> Upper(Group(s, m, 1))
          [] repl = ". upper" -> <<".", " ">> \o Upper(Group(s, m, 1))
          [] repl = ". " -> <<".", " ">>
      Replaced(ms) ==
        Flatten([j \in 1..Len(ms) |->
                   SubSeq(s, IF j = 1 THEN 1 ELSE ms[j - 1].end, ms[j].start - 1)
                   \o Replacement(ms[j])])
        \o SubSeq(s, IF ms = <<>> THEN 1 ELSE ms[Len(ms)].end, Len(s))
      Limited(ms) == IF count > 0 THEN Take(ms, count) ELSE ms
  IN  Replaced(Limited(FindIter(re, fl, s)))

\* ------------------------------------------------------------------------
\* _extract_title
\* ------------------------------------------------------------------------

\* r"^#\s+(.+)$" with re.MULTILINE
TitleRe == Cat(<<Bol, Ch("#"), Plus(Space), Grp(1, Plus(Dot)), Eol>>)

\* The text of the first heading, or the fallback made a title.
ExtractTitle(readme_content, fallback) ==
  LET TitleOf(match) ==
        IF match.ok THEN Strip(Group(readme_content, match, 1))
        ELSE Title(ReplaceChar(ReplaceChar(fallback, "-", " "), "_", " "))
  IN  TitleOf(ReSearch(TitleRe, FlagM, readme_content))

\* ------------------------------------------------------------------------
\* _clean_description
\* ------------------------------------------------------------------------

\* r"\s*\.\s*\.\s*"
DoubleDotRe == Cat(<<Star(Space), Ch("."), Star(Space), Ch("."), Star(Space)>>)

\* The substitutions of lines 141-157, in order: the pattern, its flags and
\* what replaces a match.
MarkupSubstitutions == <<
  \* r"\[([^\]]+)\]\([^\)]+\)" -> r"\1"
  [re |-> Cat(<<Ch("["), Grp(1, Plus(NotIn({"]"}))), Ch("]"), Ch("("), Plus(NotIn({")"})),
                Ch(")")>>),
   fl |-> NoFlags, repl |-> "\\1"],
  \* r"[*_]{1,2}([^*_]+)[*_]{1,2}" -> r"\1"
  [re |-> Cat(<<Rep(In({"*", "_"}), 1, 2, TRUE), Grp(1, Plus(NotIn({"*", "_"}))),
                Rep(In({"*", "_"}), 1, 2, TRUE)>>),
   fl |-> NoFlags, repl |-> "\\1"],
  \* inline code: a backtick, ([^backtick]+), a backtick -> r"\1"
  [re |-> Cat(<<Ch(Backtick), Grp(1, Plus(NotIn({Backtick}))), Ch(Backtick)>>),
   fl |-> NoFlags, repl |-> "\\1"],
  \* r"^#+\s+.*$" with re.MULTILINE -> ""
  [re |-> Cat(<<Bol, Plus(Ch("#")), Plus(Space), Star(Dot), Eol>>),
   fl |-> FlagM, repl |-> ""],
  \* the emoji character class -> "": the code points of the model's alphabet
  \* that lie in its ranges (U+1F600 in 1F600-1F64F, U+2728 in 2702-27B0)
  [re |-> In({"U+1F600", "U+2728"}), fl |-> NoFlags, repl |-> ""],
  \* r"^\s*[-*]\s+([A-Za-z])" (no flags: ^ is the start of the text)
  \*   -> capitalize_after_marker
  [re |-> Cat(<<Bol, Star(Space), In({"-", "*"}), Plus(Space), Grp(1, In(AsciiLetters))>>),
   fl |-> NoFlags, repl |-> "upper"],
  \* r"\s*[-*]\s+([A-Za-z])" -> lambda m: ". " + m.group(1).upper()
  [re |-> Cat(<<Star(Space), In({"-", "*"}), Plus(Space), Grp(1, In(AsciiLetters))>>),
   fl |-> NoFlags, repl |-> ". upper"]>>

\* text after the substitutions subs[k..], one after the other.
RECURSIVE Substituted(_, _, _)
Substituted(text, subs, k) ==
  IF k > Len(subs) \/ ~Evaluated(text) THEN text
  ELSE Substituted(ReSub(subs[k].re, subs[k].fl, subs[k].repl, text, 0), subs, k + 1)

\* A variant of CapitalizeFirst that leaves the text as it is.
MutCapitalizeFirst(text) == text

\* if text and not text[0].isupper(): upper-case the first character
CapitalizeFirst(text) ==
  CASE text = <<>> -> text
    [] text # <<>> /\ IsUpperChar(text[1]) -> text
    [] OTHER -> IF Len(text) > 1 THEN UpperChar(text[1]) \o Tail(text) ELSE Upper(text)

\* Lines 141-166: the substitutions; line 159, " ".join(text.split()); the
\* double periods (line 160); strip, capital and final period (161-165).
CleanDescription(text) ==
  LET EnsurePeriod(t) == IF t # <<>> /\ ~EndsWith(t, <<".">>) THEN t \o <<".">> ELSE t
      Finished(t) ==
        IF Evaluated(t)
        THEN EnsurePeriod(CapitalizeFirst(Strip(ReSub(DoubleDotRe, NoFlags, ". ", t, 0))))
        ELSE t
  IN  Finished(Join(SplitWhitespace(Substituted(text, MarkupSubstitutions, 1)), <<" ">>))

\* ------------------------------------------------------------------------
\* _extract_description
\* ------------------------------------------------------------------------

NoDescription == Chars("No description available.")
SimonwMarker == Chars("From https://github.com/simonw/tools")

\* r"^#\s+.+$" with re.MULTILINE (removed once: the title)
TitleLineRe == Cat(<<Bol, Ch("#"), Plus(Space), Plus(Dot), Eol>>)

\* The lookahead (?=\n##|\Z) that ends a section body
SectionEnd == Ahead(Alt(<<Lit("\n##"), EndZ>>))

\* desc_patterns (lines 183-188), in order
DescPatterns == <<
  \* r"##\s+(?:Project Purpose|Description|Overview|About)\s*\n+(.+?)(?=\n##|\Z)"
  Cat(<<Lit("##"), Plus(Space),
        Alt(<<Lit("Project Purpose"), Lit("Description"), Lit("Overview"), Lit("About")>>),
        Star(Space), Plus(Ch("\n")), Grp(1, LazyPlus(Dot)), SectionEnd>>),
  \* r"##\s+.+?\s*\n+(.+?)(?=\n##|\Z)"
  Cat(<<Lit("##"), Plus(Space), LazyPlus(Dot), Star(Space), Plus(Ch("\n")),
        Grp(1, LazyPlus(Dot)), SectionEnd>>)>>

\* The first text of the list that is not empty, or "".
FirstNonEmpty(texts) ==
  IF \A j \in 1..Len(texts) : texts[j] = <<>> THEN <<>>
  ELSE texts[Least({j \in 1..Len(texts) : texts[j] # <<>>})]

\* The texts of the list, stripped.
Stripped(texts) == [i \in 1..Len(texts) |-> Strip(texts[i])]

\* Lines 172-175: the description line of a document in the format of
\* simonw/tools, stripped, or "" for a document in another format.
SimonwLine(lines) ==
  IF Len(lines) >= 5 /\ StartsWith(Strip(lines[3]), SimonwMarker)
  THEN Strip(lines[5]) ELSE <<>>

\* Line 181: the text without its title.
WithoutTitle(readme_content) == ReSub(TitleLineRe, FlagM, "", readme_content, 1)

\* Lines 189-194: the first of desc_patterns whose section cleans to a text.
\* Lines 197-212: else the first paragraph that is not skipped, cleaned, and
\* the default when there is none.
SectionOrParagraph(content) ==
  LET CleanedSection(match) ==
        IF match.ok THEN CleanDescription(Strip(Group(content, match, 1))) ELSE <<>>
      SectionDescriptions ==
        [j \in 1..Len(DescPatterns) |->
           CleanedSection(ReSearch(DescPatterns[j], FlagIS, content))]
      SkippedParagraph(para) ==
        \/ StartsWith(para, <<"#">>)
        \/ StartsWith(para, Chars("---")) \/ StartsWith(para, Chars("***"))
        \/ StartsWith(para, <<"[">>) \/ StartsWith(para, <<"!">>)
      Paragraphs ==
        SelectSeq(Stripped(SplitOn(content, <<"\n", "\n">>)),
                  LAMBDA para : para # <<>> /\ ~SkippedParagraph(para))
      ParagraphDescription(paragraphs) ==
        IF paragraphs = <<>> THEN NoDescription ELSE CleanDescription(paragraphs[1])
      SectionElseParagraph(section) ==
        IF section # <<>> THEN section ELSE ParagraphDescription(Paragraphs)
  IN  SectionElseParagraph(FirstNonEmpty(SectionDescriptions))

\* Lines 176-178: the description line, cleaned, or the default when nothing
\* is left of it; for a document without one, lines 181-212.
ExtractDescription(readme_content) ==
  LET OrNoDescription(description) ==
        IF description # <<>> THEN description ELSE NoDescription
      Described(simonw, content) ==
        CASE simonw # <<>> -> OrNoDescription(CleanDescription(simonw))
          [] simonw = <<>> /\ Evaluated(content) -> SectionOrParagraph(content)
  IN  Described(SimonwLine(SplitOn(readme_content, <<"\n">>)), WithoutTitle(readme_content))

\* ------------------------------------------------------------------------
\* _extract_tags
\* ------------------------------------------------------------------------

\* TECH_PATTERNS: (pattern, canonical tag), in the order of the source.
TechPatterns == <<
  \* r"next\.js\s*19?"
  [re |-> Cat(<<Lit("next.js"), Star(Space), Ch("1"), Opt(Ch("9"))>>), tag |-> Chars("Next.js")],
  \* r"react\s*19?"
  [re |-> Cat(<<Lit("react"), Star(Space), Ch("1"), Opt(Ch("9"))>>), tag |-> Chars("React")],
  \* r"tailwind\s*css\s*v?4"
  [re |-> Cat(<<Lit("tailwind"), Star(Space), Lit("css"), Star(Space), Opt(Ch("v")), Ch("4")>>),
   tag |-> Chars("Tailwind CSS")],
  \* r"tailwind\s*css"
  [re |-> Cat(<<Lit("tailwind"), Star(Space), Lit("css")>>), tag |-> Chars("Tailwind CSS")],
  \* r"typescript"
  [re |-> Lit("typescript"), tag |-> Chars("TypeScript")],
  \* r"golang|\bgo\b"
  [re |-> Alt(<<Lit("golang"), Cat(<<WordB, Lit("go"), WordB>>)>>), tag |-> Chars("Go")],
  \* r"docker"
  [re |-> Lit("docker"), tag |-> Chars("Docker")],
  \* r"oauth\s*2?"
  [re |-> Cat(<<Lit("oauth"), Star(Space), Opt(Ch("2"))>>), tag |-> Chars("OAuth")],
  \* r"github\s*api"
  [re |-> Cat(<<Lit("github"), Star(Space), Lit("api")>>), tag |-> Chars("GitHub API")],
  \* r"\bbun\b"
  [re |-> Cat(<<WordB, Lit("bun"), WordB>>), tag |-> Chars("Bun")],
  \* r"node\.js"
  [re |-> Lit("node.js"), tag |-> Chars("Node.js")],
  \* r"optical\s*character\s*recognition|ocr"
  [re |-> Alt(<<Cat(<<Lit("optical"), Star(Space), Lit("character"), Star(Space),
                      Lit("recognition")>>), Lit("ocr")>>), tag |-> Chars("OCR")],
  \* r"tesseract"
  [re |-> Lit("tesseract"), tag |-> Chars("Tesseract")],
  \* r"pdf\.js"
  [re |-> Lit("pdf.js"), tag |-> Chars("PDF.js")],
  \* r"jsqr"
  [re |-> Lit("jsqr"), tag |-> Chars("jsQR")],
  \* r"readability"
  [re |-> Lit("readability"), tag |-> Chars("Readability")],
  \* r"speechsynthesis|tts"
  [re |-> Alt(<<Lit("speechsynthesis"), Lit("tts")>>), tag |-> Chars("SpeechSynthesis")],
  \* r"graphviz"
  [re |-> Lit("graphviz"), tag |-> Chars("Graphviz")],
  \* r"\bdot\b"
  [re |-> Cat(<<WordB, Lit("dot"), WordB>>), tag |-> Chars("DOT")],
  \* r"markdown|gfm"
  [re |-> Alt(<<Lit("markdown"), Lit("gfm")>>), tag |-> Chars("Markdown")],
  \* r"epub"
  [re |-> Lit("epub"), tag |-> Chars("EPUB")],
  \* r"exif"
  [re |-> Lit("exif"), tag |-> Chars("EXIF")],
  \* r"qr\s*code"
  [re |-> Cat(<<Lit("qr"), Star(Space), Lit("code")>>), tag |-> Chars("QR")],
  \* r"yaml"
  [re |-> Lit("yaml"), tag |-> Chars("YAML")],
  \* r"json"
  [re |-> Lit("json"), tag |-> Chars("JSON")],
  \* r"webassembly|wasm"
  [re |-> Alt(<<Lit("webassembly"), Lit("wasm")>>), tag |-> Chars("WebAssembly")]
>>

\* r"##\s+(Tags|Keywords|Categories)[\s:]*\n(.+?)(?=\n##|\Z)", IGNORECASE | DOTALL
TagsSectionRe ==
  Cat(<<Lit("##"), Plus(Space),
        Grp(1, Alt(<<Lit("Tags"), Lit("Keywords"), Lit("Categories")>>)),
        Star(In({" ", "\n", "\t", ":"})), Ch("\n"), Grp(2, LazyPlus(Dot)), SectionEnd>>)

\* r"[-*]\s*(.+)|([^,\n]+)"
TagItemRe ==
  Alt(<<Cat(<<In({"-", "*"}), Star(Space), Grp(1, Plus(Dot))>>),
        Grp(2, Plus(NotIn({",", "\n"})))>>)

\* r"!\[([^\]]+)\]"
BadgeRe == Cat(<<Ch("!"), Ch("["), Grp(1, Plus(NotIn({"]"}))), Ch("]")>>)

\* The slice normalized_tags[:10]
MaxTags == 10

\* x in list
InList(x, list) == \E i \in 1..Len(list) : list[i] = x

\* The indices 1..n, in order, and the items at the indices kept.
Indices(n) == [i \in 1..n |-> i]
Picked(items, kept) == [k \in 1..Len(kept) |-> items[kept[k]]]

\* for x in items: if x not in tags: tags.append(x)
\* (an item is appended unless it is in tags or equals an earlier item).
AppendNew(tags, items) ==
  IF Evaluated(tags) /\ Evaluated(items)
  THEN tags \o Picked(items, SelectSeq(Indices(Len(items)),
                                       LAMBDA i : /\ ~InList(items[i], tags)
                                                  /\ \A j \in 1..(i - 1) : items[j] # items[i]))
  ELSE tags

\* Lines 255-268: the items of the explicit section, trimmed, without the
\* empty ones and those that start with "#".
SectionTags(readme_content) ==
  LET TagOf(tags_text, m) ==
        Strip(IF Truthy(Group(tags_text, m, 1)) THEN Group(tags_text, m, 1)
              ELSE Group(tags_text, m, 2))
      ItemTags(tags_text, tag_matches) ==
        SelectSeq([i \in 1..Len(tag_matches) |-> TagOf(tags_text, tag_matches[i])],
                  LAMBDA x : x # <<>> /\ ~StartsWith(x, <<"#">>))
      OfSection(tags_section) ==
        IF tags_section.ok
        THEN ItemTags(Group(readme_content, tags_section, 2),
                      FindIter(TagItemRe, NoFlags, Group(readme_content, tags_section, 2)))
        ELSE <<>>
  IN  OfSection(ReSearch(TagsSectionRe, FlagIS, readme_content))

\* Line 271: the alt-texts of the badges.
BadgeTags(readme_content) ==
  LET AltTexts(badge_matches) ==
        [i \in 1..Len(badge_matches) |-> Group(readme_content, badge_matches[i], 1)]
  IN  AltTexts(FindIter(BadgeRe, NoFlags, readme_content))

\* Lines 277-279: the canonical tags of the catalog patterns found in the
\* lower-cased text, in the order of the catalog.
CatalogTags(readme_content) ==
  LET TagsFound(content_lower) ==
        IF Evaluated(content_lower)
        THEN SelectSeq(TechPatterns, LAMBDA p : ReSearch(p.re, FlagI, content_lower).ok)
        ELSE <<>>
      CanonicalTags(found) == [i \in 1..Len(found) |-> found[i].tag]
  IN  CanonicalTags(TagsFound(Lower(readme_content)))

\* A variant of TagCandidates that looks at the catalog before the badges.
MutTagCandidates(readme_content) ==
  AppendNew(AppendNew(SectionTags(readme_content), CatalogTags(readme_content)),
            BadgeTags(readme_content))

\* Lines 252-281: the tags before they are normalized: the items of the
\* section, then the badges not among them (lines 272-274), then the
\* catalog tags not among those (lines 280-281).
TagCandidates(readme_content) ==
  AppendNew(AppendNew(SectionTags(readme_content), BadgeTags(readme_content)),
            CatalogTags(readme_content))

\* Lines 284-292: trimmed and lower-cased, what was seen dropped,
\* title-cased.  Line 294: the first ten.
ExtractTags(readme_content) ==
  LET Unseen(normalized) ==
        IF Evaluated(normalized)
        THEN Picked(normalized,
                    SelectSeq(Indices(Len(normalized)),
                              LAMBDA i : /\ normalized[i] # <<>>
                                         /\ \A j \in 1..(i - 1) :
                                              normalized[j] # normalized[i]))
        ELSE <<>>
      Titled(kept) == [k \in 1..Len(kept) |-> Title(kept[k])]
      Normalized(tags) == Titled(Unseen([i \in 1..Len(tags) |-> Lower(Strip(tags[i]))]))
  IN  Take(Normalized(TagCandidates(readme_content)), MaxTags)

\* ------------------------------------------------------------------------
\* _extract_github_usernames
\* ------------------------------------------------------------------------

\* r"(?:https?://)?(?:www\.)?github\.com/"
GithubHost ==
  Cat(<<Opt(Cat(<<Lit("http"), Opt(Ch("s")), Lit("://")>>)), Opt(Lit("www.")),
        Lit("github.com/")>>)

\* github_patterns (lines 307-312), each with the group that holds the user
\* name (lines 320-323)
GithubPatterns == <<
  \* r"\[([^\]]+)\]\((?:https?://)?(?:www\.)?github\.com/([^/]+)/[^)]+\)"
  [re |-> Cat(<<Ch("["), Grp(1, Plus(NotIn({"]"}))), Ch("]"), Ch("("), GithubHost,
                Grp(2, Plus(NotIn({"/"}))), Ch("/"), Plus(NotIn({")"})), Ch(")")>>),
   group |-> 2],
  \* r"(?:https?://)?(?:www\.)?github\.com/([^/]+)/[^\s\)\]<>]+"
  [re |-> Cat(<<GithubHost, Grp(1, Plus(NotIn({"/"}))), Ch("/"),
                Plus(NotIn(Whitespace \cup {")", "]", "<", ">"}))>>),
   group |-> 1]>>

GithubPrefix == Chars("https://github.com/")

\* Lines 316-335: the user names the patterns find, in the order the loops
\* visit them, stripped and without trailing slashes; one record for each
\* that is not empty and was not seen before.
ExtractGithubUsernames(text) ==
  LET UserNames(ms, n) ==
        [i \in 1..Len(ms) |-> RStripSlash(Strip(Group(text, ms[i], n)))]
      Candidates ==
        Flatten([k \in 1..Len(GithubPatterns) |->
                   UserNames(FindIter(GithubPatterns[k].re, FlagI, text),
                             GithubPatterns[k].group)])
      Users(names) ==
        [i \in 1..Len(names) |-> [name |-> names[i], url |-> GithubPrefix \o names[i]]]
  IN  Users(AppendNew(<<>>, SelectSeq(Candidates, LAMBDA u : u # <<>>)))

\* ------------------------------------------------------------------------
\* _parse_author_content, _extract_author
\* ------------------------------------------------------------------------

\* r"\[([^\]]+)\]\((https?://[^\)]+)\)"
AuthorLinkRe ==
  Cat(<<Ch("["), Grp(1, Plus(NotIn({"]"}))), Ch("]"), Ch("("),
        Grp(2, Cat(<<Lit("http"), Opt(Ch("s")), Lit("://"), Plus(NotIn({")"}))>>)), Ch(")")>>)

\* r"(?:https?://)?(?:www\.)?github\.com/([^/\s\)]+)", IGNORECASE
AuthorGithubRe == Cat(<<GithubHost, Grp(1, Plus(NotIn(Whitespace \cup {"/", ")"})))>>)

\* r"^(Created (by|with\s+\S+\s+by)|Written by|Author:?)\s*", IGNORECASE
AuthorPrefixRe ==
  Cat(<<Bol,
        Grp(1, Alt(<<Cat(<<Lit("Created "),
                           Grp(2, Alt(<<Lit("by"),
                                        Cat(<<Lit("with"), Plus(Space), Plus(NonSpace),
                                              Plus(Space), Lit("by")>>)>>))>>),
                     Lit("Written by"),
                     Cat(<<Lit("Author"), Opt(Ch(":"))>>)>>)),
        Star(Space)>>)

\* The first markdown link (lines 374-381), else the user of the first GitHub
\* address (383-391), else the first line without its prefix (393-399), else
\* None.
ParseAuthorContent(content) ==
  LET GithubUser(username) == [name |-> username, url |-> GithubPrefix \o username]
      AuthorFrom(link_match, github_match, first_line) ==
        CASE link_match.ok ->
               [name |-> Strip(Group(content, link_match, 1)),
                url |-> Strip(Group(content, link_match, 2))]
          [] ~link_match.ok /\ github_match.ok ->
               GithubUser(RStripSlash(Strip(Group(content, github_match, 1))))
          [] ~link_match.ok /\ ~github_match.ok /\ first_line # <<>> ->
               [name |-> first_line]
          [] OTHER -> NoneDict
  IN  AuthorFrom(ReSearch(AuthorLinkRe, NoFlags, content),
                 ReSearch(AuthorGithubRe, FlagI, content),
                 ReSub(AuthorPrefixRe, FlagI, "", Strip(SplitOn(content, <<"\n">>)[1]), 0))

\* r"##\s+Authors?\s*\n+(.+?)(?=\n##|\Z)", IGNORECASE | DOTALL
AuthorSectionRe ==
  Cat(<<Lit("##"), Plus(Space), Lit("Author"), Opt(Ch("s")), Star(Space), Plus(Ch("\n")),
        Grp(1, LazyPlus(Dot)), SectionEnd>>)

\* A variant of AuthorSources that asks the primary document first.
MutAuthorSources == <<"readme", "section", "document">>

\* The three sources of an author, in the order of precedence.
AuthorSources == <<"section", "document", "readme">>

\* Lines 343-353: the author of the Author(s) section, or None.
SectionAuthor(credits_content) ==
  LET AuthorOfSection(author_match) ==
        IF author_match.ok
        THEN ParseAuthorContent(Strip(Group(credits_content, author_match, 1)))
        ELSE NoneDict
  IN  IF Strip(credits_content) # <<>>
      THEN AuthorOfSection(ReSearch(AuthorSectionRe, FlagIS, credits_content))
      ELSE NoneDict

\* Lines 355-358: the author of the whole attribution document, or None.
DocumentAuthor(credits_content) ==
  IF Strip(credits_content) # <<>> THEN ParseAuthorContent(credits_content) ELSE NoneDict

\* Lines 360-365: the first GitHub user of the primary document, or None.
ReadmeAuthor(readme_content) ==
  LET FirstUser(github_users) == IF github_users # <<>> THEN github_users[1] ELSE NoneDict
  IN  IF readme_content # <<>> THEN FirstUser(ExtractGithubUsernames(readme_content))
      ELSE NoneDict

\* The first of the sources that gives an author, or None.
ExtractAuthor(credits_content, readme_content) ==
  LET AuthorBy(source) ==
        CASE source = "section" -> SectionAuthor(credits_content)
          [] source = "document" -> DocumentAuthor(credits_content)
          [] source = "readme" -> ReadmeAuthor(readme_content)
      FirstAuthor(authors) ==
        IF \A k \in 1..Len(authors) : authors[k] = NoneDict THEN NoneDict
        ELSE authors[Least({k \in 1..Len(authors) : authors[k] # NoneDict})]
  IN  FirstAuthor([k \in 1..Len(AuthorSources) |-> AuthorBy(AuthorSources[k])])

\* ------------------------------------------------------------------------
\* _parse_single_credit_line
\* ------------------------------------------------------------------------

\* [-*] and [-:\u2013\u2014]
Bullet == In({"-", "*"})
Separator == In({"-", ":", EnDash, EmDash})

\* r"\[([^\]]+)\]\(([^\)]+)\)" with groups n and n + 1
MdLink(n) ==
  <<Ch("["), Grp(n, Plus(NotIn({"]"}))), Ch("]"), Ch("("),
    Grp(n + 1, Plus(NotIn({")"}))), Ch(")")>>

\* A variant of EWordRe that looks for the capital letter only.
MutEWordRe == Cat(<<WordB, Ch("E"), Ch("-"), WordCh>>)

\* r"\b[eE]-\w"
EWordRe == Cat(<<WordB, In({"e", "E"}), Ch("-"), WordCh>>)

\* The four formats of a credit line, in the order they are tried.
CreditLineFormats == <<
  \* r"^[-*]\s*\[([^\]]+)\]\(([^\)]+)\)(?:\s*[-:\u2013\u2014]\s*(.+))?$"
  [format |-> "link_first",
   re |-> Cat(<<Bol, Bullet, Star(Space)>> \o MdLink(1)
              \o <<Opt(Cat(<<Star(Space), Separator, Star(Space), Grp(3, Plus(Dot))>>)),
                   Eol>>)],
  \* r"^[-*]\s*(.+?)\s*\[([^\]]+)\]\(([^\)]+)\)\s*(.*)$"
  [format |-> "link_embedded",
   re |-> Cat(<<Bol, Bullet, Star(Space), Grp(1, LazyPlus(Dot)), Star(Space)>> \o MdLink(2)
              \o <<Star(Space), Grp(4, Star(Dot)), Eol>>)],
  \* r"^[-*]\s*(.+?)\s*[-:\u2013\u2014]\s*(.+?)\s*\[([^\]]+)\]\(([^\)]+)\)$"
  [format |-> "link_last",
   re |-> Cat(<<Bol, Bullet, Star(Space), Grp(1, LazyPlus(Dot)), Star(Space), Separator,
                Star(Space), Grp(2, LazyPlus(Dot)), Star(Space)>> \o MdLink(3)
              \o <<Eol>>)],
  \* r"^[-*]\s*(.+?)\s*[-:\u2013\u2014]\s+(.+)$"
  [format |-> "no_link",
   re |-> Cat(<<Bol, Bullet, Star(Space), Grp(1, LazyPlus(Dot)), Star(Space), Separator,
                Plus(Space), Grp(2, Plus(Dot)), Eol>>)]>>

\* The entry of the first format the line matches: link first (lines
\* 517-523), link embedded (526-533), link last (536-542), no link (545-555,
\* None for a name that holds link syntax or an e-word), or None.
ParseSingleCreditLine(line) ==
  LET LinkFirstEntry(m) ==
        [name |-> Strip(Group(line, m, 1)),
         url |-> Strip(Group(line, m, 2)),
         description |->
           IF Truthy(Group(line, m, 3)) THEN Strip(Group(line, m, 3)) ELSE <<>>]
      LinkEmbeddedEntry(m) ==
        [name |-> Strip(Group(line, m, 2)),
         url |-> Strip(Group(line, m, 3)),
         description |->
           Strip(Strip(Group(line, m, 1)) \o <<" ">> \o Strip(Group(line, m, 2))
                 \o <<" ">> \o Strip(Group(line, m, 4)))]
      LinkLastEntry(m) ==
        [name |-> Strip(Group(line, m, 1)),
         description |-> Strip(Group(line, m, 2)),
         url |-> Strip(Group(line, m, 4))]
      NoLinkEntry(name, desc) ==
        CASE Contains(name, <<"[">>) \/ Contains(name, <<"]", "(">>) -> NoneDict
          [] ReSearch(EWordRe, NoFlags, name).ok -> NoneDict
          [] OTHER -> [name |-> Strip(name), description |-> Strip(desc), url |-> <<>>]
      EntryOf(format, m) ==
        CASE format = "link_first" -> LinkFirstEntry(m)
          [] format = "link_embedded" -> LinkEmbeddedEntry(m)
          [] format = "link_last" -> LinkLastEntry(m)
          [] format = "no_link" -> NoLinkEntry(Group(line, m, 1), Group(line, m, 2))
      FirstFormat(matches) ==
        IF \A k \in 1..Len(matches) : ~matches[k].ok THEN NoneDict
        ELSE EntryOf(CreditLineFormats[Least({k \in 1..Len(matches) : matches[k].ok})].format,
                     matches[Least({k \in 1..Len(matches) : matches[k].ok})])
  IN  FirstFormat([k \in 1..Len(CreditLineFormats) |->
                     ReMatch(CreditLineFormats[k].re, NoFlags, line)])

\* ------------------------------------------------------------------------
\* _parse_multiline_credits
\* ------------------------------------------------------------------------

\* r"^[-*]\s+(.+)$"
NameLineRe == Cat(<<Bol, Bullet, Plus(Space), Grp(1, Plus(Dot)), Eol>>)

\* r"^[-*]\s+(https?://[^\s]+)$"
UrlLineRe ==
  Cat(<<Bol, Bullet, Plus(Space),
        Grp(1, Cat(<<Lit("http"), Opt(Ch("s")), Lit("://"), Plus(NonSpace)>>)), Eol>>)

\* credit_entry with its category when the category is truthy
WithCategory(entry, category) ==
  IF Truthy(category)
  THEN [k \in DOMAIN entry \cup {"category"} |->
          IF k = "category" THEN category ELSE entry[k]]
  ELSE entry

\* The while loop of lines 484-510 from line i on.
RECURSIVE MultilineFrom(_, _, _)
MultilineFrom(at, i, credits) ==
  CASE i > Len(at) -> credits
    [] i <= Len(at) /\ at[i] # NoneDict -> MultilineFrom(at, i + 2, Append(credits, at[i]))
    [] OTHER -> MultilineFrom(at, i + 1, credits)

\* Lines 485-510: names and urls are the matches of the two patterns on
\* each stripped line, and at[i] is the entry that starts at line i, or None.
\* Returns <<>> where the source returns None (both are falsy, and the
\* caller only tests the truth value).
ParseMultilineCredits(content, category) ==
  LET LineMatches(re, lines) ==
        [i \in 1..Len(lines) |-> ReMatch(re, NoFlags, Strip(lines[i]))]
      EntriesAt(lines, names, urls) ==
        [i \in 1..Len(lines) |->
           IF /\ StartsWith(Strip(lines[i]), <<"-">>)
              /\ names[i].ok
              /\ i + 1 <= Len(lines)
              /\ urls[IF i + 1 <= Len(lines) THEN i + 1 ELSE i].ok
           THEN WithCategory([name |-> Strip(Group(Strip(lines[i]), names[i], 1)),
                              url |-> Strip(Group(Strip(lines[i + 1]), urls[i + 1], 1))],
                             category)
           ELSE NoneDict]
      MultilineOf(lines) ==
        IF Evaluated(lines)
        THEN MultilineFrom(EntriesAt(lines, LineMatches(NameLineRe, lines),
                                     LineMatches(UrlLineRe, lines)), 1, <<>>)
        ELSE <<>>
  IN  MultilineOf(SplitOn(content, <<"\n">>))

\* ------------------------------------------------------------------------
\* _parse_credits_content, _parse_credits
\* ------------------------------------------------------------------------

\* re.split(re, s) for a pattern without groups: the pieces of s between
\* the matches.
ReSplit(re, fl, s) ==
  LET Pieces(ms) ==
        [j \in 1..(Len(ms) + 1) |->
           SubSeq(s, IF j = 1 THEN 1 ELSE ms[j - 1].end,
                     IF j > Len(ms) THEN Len(s) ELSE ms[j].start - 1)]
  IN  Pieces(FindIter(re, fl, s))

\* r"\n(?=##\s+)"
SectionSplitRe == Cat(<<Ch("\n"), Ahead(Cat(<<Lit("##"), Plus(Space)>>))>>)

\* r"##\s+(.+)"
SectionHeadingRe == Cat(<<Lit("##"), Plus(Space), Grp(1, Plus(Dot))>>)

\* The loop state of _parse_credits_content: the entries so far and the
\* keys already taken (matched_lines).
NoCredits == [credits |-> <<>>, matched_lines |-> {}]

\* Line 448: f"{c.get('name', '')}|{c.get('url', '')}"
MultilineKey(c) == c.name \o <<"|">> \o c.url

\* Lines 449-451: the entry c is appended and its key taken.
Taken(acc, c, line_key) ==
  [credits |-> Append(acc.credits, c), matched_lines |-> acc.matched_lines \cup {line_key}]

\* Lines 447-451 from entry k on.
RECURSIVE AddMultiline(_, _, _)
AddMultiline(acc, cs, k) ==
  CASE k > Len(cs) -> acc
    [] k <= Len(cs) /\ MultilineKey(cs[k]) \notin acc.matched_lines ->
         AddMultiline(Taken(acc, cs[k], MultilineKey(cs[k])), cs, k + 1)
    [] OTHER -> AddMultiline(acc, cs, k + 1)

\* Lines 457-458: a line the loop passes over.
PassedOver(line_stripped) == line_stripped = <<>> \/ StartsWith(line_stripped, <<"#">>)

\* Lines 455-469 from line k on; entries[k] is what line k parses to.
RECURSIVE AddLines(_, _, _, _, _)
AddLines(acc, lines, entries, category, k) ==
  CASE k > Len(lines) -> acc
    [] k <= Len(lines) /\ (\/ PassedOver(lines[k])
                           \/ lines[k] \in acc.matched_lines
                           \/ entries[k] = NoneDict) ->
         AddLines(acc, lines, entries, category, k + 1)
    [] OTHER ->
         AddLines(Taken(acc, WithCategory(entries[k], category), lines[k]),
                  lines, entries, category, k + 1)

\* A variant of FoundPairs that takes no section to have multi-line entries.
MutFoundPairs(entries) == FALSE

\* Line 446: `if multiline_credits:` (None and the empty list are falsy).
FoundPairs(entries) == entries # <<>>

\* Lines 433-469: one section of the document.  The heading gives the
\* category and the body (lines 437-443); the multi-line entries of the body
\* are added when there are any (444-452), else the entries of its lines
\* (454-469).
AddSection(acc, raw_section) ==
  LET LineEntries(lines) ==
        [k \in 1..Len(lines) |->
           IF PassedOver(lines[k]) THEN NoneDict ELSE ParseSingleCreditLine(lines[k])]
      AddLinesOf(lines, category) ==
        IF Evaluated(lines) THEN AddLines(acc, lines, LineEntries(lines), category, 1)
        ELSE acc
      AddParsed(category, content_body, multiline_credits) ==
        IF FoundPairs(multiline_credits)
        THEN AddMultiline(acc, multiline_credits, 1)
        ELSE AddLinesOf(Stripped(SplitOn(content_body, <<"\n">>)), category)
      AddBody(category, content_body) ==
        IF Evaluated(content_body)
        THEN AddParsed(category, content_body,
                       ParseMultilineCredits(content_body, category))
        ELSE acc
      AddHeaded(section, heading_match) ==
        AddBody(IF heading_match.ok THEN Strip(Group(section, heading_match, 1)) ELSE None,
                IF heading_match.ok
                THEN Strip(SubSeq(section, Len(Group0(section, heading_match)) + 1,
                                  Len(section)))
                ELSE section)
  IN  IF Strip(raw_section) = <<>> THEN acc
      ELSE AddHeaded(Strip(raw_section),
                     ReMatch(SectionHeadingRe, NoFlags, Strip(raw_section)))

\* Lines 432-469 from section k on.
RECURSIVE AddSections(_, _, _)
AddSections(acc, sections, k) ==
  CASE k > Len(sections) -> acc
    [] k <= Len(sections) /\ Evaluated(acc) ->
         AddSections(AddSection(acc, sections[k]), sections, k + 1)

ParseCreditsContent(content) ==
  LET SectionCredits(sections) ==
        IF Evaluated(sections) THEN AddSections(NoCredits, sections, 1).credits ELSE <<>>
  IN  IF Strip(content) = <<>> THEN <<>>
      ELSE SectionCredits(ReSplit(SectionSplitRe, NoFlags, content))

\* Lines 410-412: the structured entries of the attribution document.
StructuredCredits(credits_content) ==
  IF Strip(credits_content) # <<>> THEN ParseCreditsContent(credits_content) ELSE <<>>

\* A variant of OrGithubUsers that adds the GitHub users to the entries.
MutOrGithubUsers(credits, readme_content) ==
  credits \o ExtractGithubUsernames(readme_content)

\* Lines 414-420: the entries, or the GitHub users of the primary document
\* when there are no entries.
OrGithubUsers(credits, readme_content) ==
  LET GithubFallback(github_users) == IF github_users # <<>> THEN github_users ELSE credits
  IN  IF credits = <<>> /\ readme_content # <<>>
      THEN GithubFallback(ExtractGithubUsernames(readme_content))
      ELSE credits

ParseCredits(credits_content, readme_content) ==
  OrGithubUsers(StructuredCredits(credits_content), readme_content)

\* ------------------------------------------------------------------------
\* _extract_app_info
\* ------------------------------------------------------------------------

\* A directory entry of apps/: whether it is a directory, whether it holds
\* a Dockerfile, and the texts of its README.md and CREDITS.md (None for a
\* file that does not exist).
Dir(dockerfile, readme, credits) ==
  [is_dir |-> TRUE, dockerfile |-> dockerfile, readme |-> readme, credits |-> credits]
PlainFile == [is_dir |-> FALSE, dockerfile |-> FALSE, readme |-> None, credits |-> None]

\* In place of its text, a file that exists and that open() or read() fails on.
Unreadable == <<"Unreadable">>

\* A variant of ReadmeExists that takes every README.md to exist.
MutReadmeExists(entry) == TRUE

\* Line 95: readme_path.exists()
ReadmeExists(entry) == entry.readme # None

\* Lines 103-106: the attribution text, "" when CREDITS.md does not exist.
CreditsContent(entry) == IF entry.credits # None THEN entry.credits ELSE <<>>

\* A variant of HasCredits that is set whatever the credits are.
MutHasCredits(credits) == TRUE

\* Line 122: len(credits) > 0
HasCredits(credits) == Len(credits) > 0

\* Lines 124-125: the record with its author when there is one.
WithAuthor(app_info, author) ==
  IF author # NoneDict
  THEN [k \in DOMAIN app_info \cup {"author"} |->
          IF k = "author" THEN author ELSE app_info[k]]
  ELSE app_info

\* Lines 115-127: the record made from what the extractors returned.
Record(name, title, description, tags, author, credits) ==
  WithAuthor([name |-> name,
              title |-> title,
              description |-> description,
              tags |-> tags,
              url |-> <<"/">> \o name,
              credits |-> credits,
              has_credits |-> HasCredits(credits)],
             author)

\* Lines 109-127: the record made from the two texts.
AppInfo(name, readme, credits_text) ==
  Record(name,
         ExtractTitle(readme, name),
         ExtractDescription(readme),
         ExtractTags(readme),
         ExtractAuthor(credits_text, readme),
         ParseCredits(credits_text, readme))

\* Lines 99-100 and 104-106: the exception that open() or read() raises, on
\* README.md first and then on CREDITS.md, or None when both can be read.
ReadError(app_name, entry) ==
  CASE entry.readme = Unreadable ->
         [raised |-> "OSError", filename |-> app_name \o Chars("/README.md")]
    [] entry.readme # Unreadable /\ entry.credits = Unreadable ->
         [raised |-> "OSError", filename |-> app_name \o Chars("/CREDITS.md")]
    [] OTHER -> NoneDict

\* What _extract_app_info returns (None, or the record), or the exception it
\* raises.
ExtractAppInfo(app_name, entry) ==
  CASE ~ReadmeExists(entry) -> NoneDict
    [] ReadmeExists(entry) /\ ReadError(app_name, entry) # NoneDict ->
         ReadError(app_name, entry)
    [] OTHER -> AppInfo(app_name, entry.readme, CreditsContent(entry))

\* A variant of Raised that takes no call to have raised.
MutRaised(result) == FALSE

\* Whether a call ended in an exception.
Raised(result) == "raised" \in DOMAIN result

\* ------------------------------------------------------------------------
\* _discover_apps, sorted()
\* ------------------------------------------------------------------------

\* self.exclude_dirs (lines 23-31)
ExcludeDirs ==
  {Chars("templates"), Chars("nginx"), Chars(".git"), Chars("__pycache__"),
   Chars("node_modules"), Chars(".venv"), Chars("venv")}

\* Lines 76-85: whether the entry called name is taken as an application.
IsApp(name, entry) ==
  /\ entry.is_dir
  /\ ~(name \in ExcludeDirs \/ StartsWith(name, <<".">>))
  /\ (entry.dockerfile \/ entry.readme # None)

\* The characters of names in code point order, and the order of two
\* strings that sorted() uses.
CodePointOrder ==
  Chars("-.0123456789ABCDEFGHIJKLMNOPQRSTUVWXYZ_abcdefghijklmnopqrstuvwxyz")
CodePoint(c) == CHOOSE i \in 1..Len(CodePointOrder) : CodePointOrder[i] = c
StrLess(a, b) ==
  \E k \in 1..Len(b) :
    /\ k <= Len(a) + 1
    /\ SubSeq(a, 1, k - 1) = SubSeq(b, 1, k - 1)
    /\ k = Len(a) + 1 \/ CodePoint(a[k]) < CodePoint(b[k])

\* The orders in which the elements of the set S can be listed.
Orders(S) ==
  {f \in [1..Cardinality(S) -> S] : \A i, j \in 1..Cardinality(S) : i # j => f[i] # f[j]}

\* A variant of Sorted that keeps the order of discovery.
MutSorted(apps) == apps

\* A variant of Sorted that puts the names in descending order.
MutDescending(apps) ==
  CHOOSE s \in Orders({apps[i] : i \in 1..Len(apps)}) :
    \A i, j \in 1..Len(s) : i < j => ~StrLess(s[i], s[j])

\* sorted(apps) (line 42)
Sorted(apps) ==
  CHOOSE s \in Orders({apps[i] : i \in 1..Len(apps)}) :
    \A i, j \in 1..Len(s) : i < j => ~StrLess(s[j], s[i])

\* ------------------------------------------------------------------------
\* The documents and repositories of the model
\* ------------------------------------------------------------------------

\* The most lines of a generated primary document, the most lines of a
\* generated attribution document, and the most runs of the pipeline.
MaxReadmeLines == 2
MaxCreditsLines == 2
MaxRuns == 2

\* The texts of at most max lines out of pool.
Docs(pool, max) ==
  {Join(ls, <<"\n">>) : ls \in UNION {[1..n -> pool] : n \in 0..max}}

GithubLine == Chars("by https://github.com/bob/repo")

\* Lines of primary documents: headings (one with a blank text), a blank
\* line, paragraphs that start with a digit or are nothing but an emoji, a
\* tag section with tags that differ in case only, and a GitHub link.
ReadmeLines ==
  {Chars("# My Tool"), Chars("#  "), <<>>, Chars("3 tools for you"), <<"U+1F600">>,
   Chars("## Tags"), Chars("Docker, docker, ") \o <<SharpS>> \o Chars(", ss"),
   GithubLine}

\* A document in the format of the tools copied from simonw/tools, and one
\* with more tags than are kept.
SimonwReadme ==
  Chars("# T\n\nFrom https://github.com/simonw/tools\n\n*a* tool\n")
ManyTagsReadme == Chars("## Tags\na, b, c, d, e, f, g, h, i, j, k, l\n")

\* A document in the format of simonw/tools whose description line is
\* nothing but an emoji, followed by a section that describes the tool.
SimonwEmojiReadme ==
  Chars("# T\n\nFrom https://github.com/simonw/tools\n\n") \o <<"U+1F600">>
  \o Chars("\n## About\nA tool.")

\* A document with two badges, two words of the catalog and a tag section:
\* eleven tags that differ, from the three sources.
ThreeSourcesReadme ==
  Chars("![Build](b) ![docker](d) yaml json\n## Tags\na, b, c, d, e, f, g")

ReadmeDocs ==
  Docs(ReadmeLines, MaxReadmeLines)
    \cup {SimonwReadme, ManyTagsReadme, SimonwEmojiReadme, ThreeSourcesReadme}

\* Lines of attribution documents: an author section, single-line entries
\* (two of them with the same name and link), and the two lines of a
\* multi-line entry.
CreditsLines ==
  {Chars("## Authors"), Chars("[Ann](https://github.com/ann)"),
   Chars("- [Lib](http://l) - fast"), Chars("- [Lib](http://l) - small"),
   Chars("- Tool"), Chars("  - https://t.io")}

\* A document of whitespace, and one that names the same multi-line entry
\* twice.
BlankCredits == Chars(" \n")
TwiceCredits == Chars("- Tool\n  - https://t.io\n- Tool\n  - https://t.io\n")

CreditsDocs == Docs(CreditsLines, MaxCreditsLines) \cup {BlankCredits, TwiceCredits}

\* The names of the entries of apps/; one of them is excluded from the scan.
Names == {Chars("tool-b"), Chars("tool_a"), Chars("nginx")}

\* Fallback identifiers for the title (one of them empty, one of nothing but
\* the characters that become spaces).
Fallbacks == {Chars("my-tool"), Chars("-_"), <<>>}

LinkReadme == Chars("# One\n\nSee https://github.com/bob/repo.")
PlainReadme == Chars("# Two\n\nA small tool.")
LibCredits == Chars("## Credits\n- [Lib](http://l) - fast")

\* What an entry of apps/ can be: a file, or a directory with or without a
\* Dockerfile, a README.md and a CREDITS.md, either of which may be unreadable.
Entries ==
  {PlainFile, Dir(FALSE, None, None), Dir(TRUE, None, None), Dir(TRUE, None, LibCredits),
   Dir(FALSE, LinkReadme, None), Dir(TRUE, PlainReadme, LibCredits),
   Dir(TRUE, PlainReadme, None), Dir(TRUE, Unreadable, None),
   Dir(FALSE, PlainReadme, Unreadable)}

\* No entry of that name.
Absent == NoneDict

\* The repositories: each name is absent or one of the entries (the
\* excluded name is absent or a directory with a README.md).
Repositories ==
  {f \in [Names -> Entries \cup {Absent}] :
     f[Chars("nginx")] \in {Absent, Dir(TRUE, PlainReadme, None)}}

NoRepository == [n \in Names |-> Absent]

\* ------------------------------------------------------------------------
\* State
\* ------------------------------------------------------------------------

VARIABLES
  apps_dir_exists,   \* whether <repo_root>/apps exists
  fs,                \* the entries of apps/, by name
  now,               \* the clock that _get_timestamp reads
  pc,                \* where generate() is: "idle" (not running), "discover", "loop"
  apps,              \* the list _discover_apps returned
  todo,              \* what is left of sorted(apps)
  colophon_data,     \* the records appended so far
  outputs,           \* the output_data written, one per run
  exit_code,         \* the exit status of the last run, <<>> until it ends
  error,             \* the exception main() reported on stderr, or None
  app_name,          \* the arguments of one extraction ...
  readme_content,
  credits_content,
  step,              \* ... the extractor that runs next ...
  title,             \* ... and what the extractors returned
  description,
  tags,
  author,
  credits,
  app_info,          \* ... and the record made of them
  ppc,               \* where _parse_credits_content is: "none", "start",
                     \* "sections", "scan", "lines", "done"
  open_sections,     \* sections: those not yet done, the current one first
  matched,           \* matched_lines: the keys of the entries taken
  section_category,  \* category: the heading of the current section, or None
  section_body,      \* content_body: the body of the current section
  body_lines,        \* lines: the lines of the body
  line_no,           \* i: the line a loop is at (from 1; the source counts from 0)
  pairs,             \* the entries _parse_multiline_credits has found so far
  last_line,         \* line_stripped: the line the single-line loop looked at last
  last_entry,        \* credit_entry: what was made of that line, or None
  raw_text,          \* a text for _clean_description
  cleaned,           \* what it returned, applied again and again
  tool_dirs,         \* apps/<name> of manage.py: None, or what new_tool put there
  compose,           \* the text of docker-compose.yml, or None
  nginx_conf,        \* the text of nginx/conf.d/default.conf, or None
  commands           \* the commands of manage.py run so far, with their exit status

pipeline_vars ==
  <<apps_dir_exists, fs, now, pc, apps, todo, colophon_data, outputs, exit_code, error>>
extract_vars ==
  <<app_name, readme_content, credits_content, step, title, description, tags, author,
    credits, app_info>>
parse_vars ==
  <<ppc, open_sections, matched, section_category, section_body, body_lines, line_no,
    pairs, last_line, last_entry>>
clean_vars == <<raw_text, cleaned>>
manage_vars == <<tool_dirs, compose, nginx_conf, commands>>
vars == <<pipeline_vars, extract_vars, parse_vars, clean_vars, manage_vars>>

\* ------------------------------------------------------------------------
\* generate(): runs of the pipeline over one repository
\* ------------------------------------------------------------------------

\* _parse_credits_content is not running, and nothing is being cleaned.
NoParse ==
  /\ ppc = "none"
  /\ open_sections = <<>>
  /\ matched = {}
  /\ section_category = None
  /\ section_body = <<>>
  /\ body_lines = <<>>
  /\ line_no = 1
  /\ pairs = <<>>
  /\ last_line = <<>>
  /\ last_entry = NoneDict

NoClean ==
  /\ raw_text = <<>>
  /\ cleaned = <<>>

NoManage ==
  /\ tool_dirs = <<>>
  /\ compose = None
  /\ nginx_conf = None
  /\ commands = <<>>

NoExtraction ==
  /\ app_name = <<>>
  /\ readme_content = <<>>
  /\ credits_content = <<>>
  /\ step = "none"
  /\ title = None
  /\ description = None
  /\ tags = <<>>
  /\ author = NoneDict
  /\ credits = <<>>
  /\ app_info = NoneDict

Init ==
  /\ apps_dir_exists \in BOOLEAN
  /\ fs \in IF apps_dir_exists THEN Repositories ELSE {NoRepository}
  /\ now = 0
  /\ pc = "idle"
  /\ apps = <<>>
  /\ todo = <<>>
  /\ colophon_data = <<>>
  /\ outputs = <<>>
  /\ exit_code = <<>>
  /\ error = NoneDict
  /\ NoExtraction
  /\ NoParse
  /\ NoClean
  /\ NoManage

\* main() (lines 596-598): one more run of generate(), in a new process.
Main ==
  /\ pc = "idle"
  /\ Len(outputs) < MaxRuns
  /\ pc' = "discover"
  /\ apps' = <<>>
  /\ todo' = <<>>
  /\ colophon_data' = <<>>
  /\ exit_code' = <<>>
  /\ error' = NoneDict
  /\ UNCHANGED <<apps_dir_exists, fs, now, outputs, extract_vars,
                 parse_vars, clean_vars, manage_vars>>

\* What iterdir() yields: the entries that exist.
Listing == {n \in Names : fs[n] # Absent}

\* _discover_apps() when iterdir() yields the entries in this order.
Discovered(order) ==
  IF ~apps_dir_exists THEN <<>>
  ELSE SelectSeq(order, LAMBDA n : IsApp(n, fs[n]))

\* Lines 37-42: the apps are discovered, in the arbitrary order in which
\* iterdir() yields them, and sorted for the loop.
DiscoverApps ==
  /\ pc = "discover"
  /\ \E order \in Orders(Listing) :
       /\ apps' = Discovered(order)
       /\ todo' = Sorted(Discovered(order))
  /\ colophon_data' = <<>>
  /\ pc' = "loop"
  /\ UNCHANGED <<apps_dir_exists, fs, now, outputs, exit_code, error, extract_vars,
                 parse_vars, clean_vars, manage_vars>>

\* A variant of Appended in which a record takes its has_credits from the
\* records made before it.
MutAppendedShared(data, info) ==
  IF info # NoneDict THEN Append(data, [info EXCEPT !.has_credits = data # <<>>]) ELSE data

\* A variant of Appended that drops the records so far when there is none.
MutAppendedOrNone(data, info) == IF info # NoneDict THEN Append(data, info) ELSE <<>>

\* Lines 43-50: the record is appended when there is one.
Appended(data, info) == IF info # NoneDict THEN Append(data, info) ELSE data

\* Lines 42-50: one iteration of the loop.  An exception of
\* _extract_app_info leaves generate() and is caught in main() (lines
\* 602-608), which prints it on stderr and exits with status 1.
ProcessApp ==
  /\ pc = "loop"
  /\ todo # <<>>
  /\ LET Proceed(app_info_or_error) ==
           IF Raised(app_info_or_error)
           THEN /\ error' = app_info_or_error
                /\ exit_code' = <<1>>
                /\ pc' = "idle"
                /\ UNCHANGED <<colophon_data, todo>>
           ELSE /\ colophon_data' = Appended(colophon_data, app_info_or_error)
                /\ todo' = Tail(todo)
                /\ UNCHANGED <<pc, exit_code, error>>
     IN  Proceed(ExtractAppInfo(Head(todo), fs[Head(todo)]))
  /\ UNCHANGED <<apps_dir_exists, fs, now, apps, outputs, extract_vars,
                 parse_vars, clean_vars, manage_vars>>

\* A variant of TotalApps that counts the applications discovered.
MutTotalApps(data) == Len(apps)

\* Line 55: len(colophon_data)
TotalApps(data) == Len(data)

\* Lines 53-60: the output is written, and main() returns (exit status 0);
\* the clock has moved on by the next run.
WriteOutput ==
  /\ pc = "loop"
  /\ todo = <<>>
  /\ outputs' = Append(outputs, [generated_at |-> now,
                                 total_apps |-> TotalApps(colophon_data),
                                 apps |-> colophon_data])
  /\ now' = now + 1
  /\ pc' = "idle"
  /\ exit_code' = <<0>>
  /\ UNCHANGED <<apps_dir_exists, fs, apps, todo, colophon_data, error, extract_vars,
                 parse_vars, clean_vars, manage_vars>>

Next == Main \/ DiscoverApps \/ ProcessApp \/ WriteOutput

Spec == Init /\ [][Next]_vars

\* ------------------------------------------------------------------------
\* The extractors of _extract_app_info, one after the other, on any texts
\* ------------------------------------------------------------------------

NoPipeline ==
  /\ apps_dir_exists = FALSE
  /\ fs = NoRepository
  /\ now = 0
  /\ pc = "idle"
  /\ apps = <<>>
  /\ todo = <<>>
  /\ colophon_data = <<>>
  /\ outputs = <<>>
  /\ exit_code = <<>>
  /\ error = NoneDict

\* Primary documents to go with the attribution documents: none, and one
\* with two GitHub links.
CreditedReadmes == {<<>>, GithubLine \o Chars(" and github.com/amy/x")}

\* Primary documents to go with the fallback identifiers: without a heading,
\* with a heading of blanks, with a heading.
TitleReadmes == {<<>>, Chars("#  "), Chars("# My Tool")}

\* Every primary document with no attribution document, every attribution
\* document with the primary documents that go with it, and every fallback
\* identifier with the primary documents that go with it.
InitExtract ==
  /\ NoPipeline
  /\ NoParse
  /\ NoClean
  /\ NoManage
  /\ \/ /\ readme_content \in ReadmeDocs
        /\ credits_content = <<>>
        /\ app_name = Chars("my-tool")
     \/ /\ readme_content \in CreditedReadmes
        /\ credits_content \in CreditsDocs
        /\ app_name = Chars("my-tool")
     \/ /\ readme_content \in TitleReadmes
        /\ credits_content = <<>>
        /\ app_name \in Fallbacks
  /\ step = "title"
  /\ title = None
  /\ description = None
  /\ tags = <<>>
  /\ author = NoneDict
  /\ credits = <<>>
  /\ app_info = NoneDict

\* Line 109
StepTitle ==
  /\ step = "title"
  /\ title' = ExtractTitle(readme_content, app_name)
  /\ step' = "description"
  /\ UNCHANGED <<pipeline_vars, parse_vars, clean_vars, manage_vars, app_name, readme_content,
                 credits_content, description, tags, author, credits, app_info>>

\* Line 110
StepDescription ==
  /\ step = "description"
  /\ description' = ExtractDescription(readme_content)
  /\ step' = "tags"
  /\ UNCHANGED <<pipeline_vars, parse_vars, clean_vars, manage_vars, app_name, readme_content,
                 credits_content, title, tags, author, credits, app_info>>

\* Line 111
StepTags ==
  /\ step = "tags"
  /\ tags' = ExtractTags(readme_content)
  /\ step' = "author"
  /\ UNCHANGED <<pipeline_vars, parse_vars, clean_vars, manage_vars, app_name, readme_content,
                 credits_content, title, description, author, credits, app_info>>

\* Line 112
StepAuthor ==
  /\ step = "author"
  /\ author' = ExtractAuthor(credits_content, readme_content)
  /\ step' = "credits"
  /\ UNCHANGED <<pipeline_vars, parse_vars, clean_vars, manage_vars, app_name, readme_content,
                 credits_content, title, description, tags, credits, app_info>>

\* Line 113
StepCredits ==
  /\ step = "credits"
  /\ credits' = ParseCredits(credits_content, readme_content)
  /\ step' = "record"
  /\ UNCHANGED <<pipeline_vars, parse_vars, clean_vars, manage_vars, app_name, readme_content,
                 credits_content, title, description, tags, author, app_info>>

\* Lines 115-127
StepRecord ==
  /\ step = "record"
  /\ app_info' = Record(app_name, title, description, tags, author, credits)
  /\ step' = "done"
  /\ UNCHANGED <<pipeline_vars, parse_vars, clean_vars, manage_vars, app_name, readme_content,
                 credits_content, title, description, tags, author, credits>>

NextExtract ==
  StepTitle \/ StepDescription \/ StepTags \/ StepAuthor \/ StepCredits \/ StepRecord

SpecExtract == InitExtract /\ [][NextExtract]_vars

\* ------------------------------------------------------------------------
\* _parse_credits_content, one loop iteration at a time
\* ------------------------------------------------------------------------

\* The most lines of a generated attribution document for the parser.
MaxParseLines == 2

\* Lines of attribution documents: a section heading, the two lines of a
\* multi-line entry, an entry with a link, lines with the word e-commerce
\* or e-mail before and after the separator, and a blank line.
ParseLines ==
  {Chars("## Tools"), Chars("- Tool"), Chars("  - https://t.io"),
   Chars("- [Lib](http://l) - fast"), Chars("- e-commerce demo"),
   Chars("- e-commerce demo - a shop"), Chars("* tool - e-mail client"), <<>>}

\* A document with a section that has a multi-line entry and an entry with
\* a link, followed by a section that has the entry with a link only.
PairsAndLinks ==
  Chars("## A\n- Tool\n  - https://t.io\n- [Lib](http://l) - fast\n")
  \o Chars("## B\n- [Lib](http://l) - fast")

\* A document of one line with the link at its end.
LinkLastCredits == Chars("- Tool - fast [site](http://t)")

ParseDocs ==
  Docs(ParseLines, MaxParseLines)
    \cup {PairsAndLinks, TwiceCredits, BlankCredits, LinkLastCredits}

InitParse ==
  /\ NoPipeline
  /\ NoClean
  /\ NoManage
  /\ app_name = <<>>
  /\ readme_content = <<>>
  /\ credits_content \in ParseDocs
  /\ step = "none"
  /\ title = None
  /\ description = None
  /\ tags = <<>>
  /\ author = NoneDict
  /\ credits = <<>>
  /\ app_info = NoneDict
  /\ ppc = "start"
  /\ open_sections = <<>>
  /\ matched = {}
  /\ section_category = None
  /\ section_body = <<>>
  /\ body_lines = <<>>
  /\ line_no = 1
  /\ pairs = <<>>
  /\ last_line = <<>>
  /\ last_entry = NoneDict

\* Lines 424-430: nothing to parse in a blank document; else the document
\* is split into its sections.
ParseStart ==
  /\ ppc = "start"
  /\ IF Strip(credits_content) = <<>>
     THEN /\ ppc' = "done"
          /\ open_sections' = <<>>
     ELSE /\ ppc' = "sections"
          /\ open_sections' = ReSplit(SectionSplitRe, NoFlags, credits_content)
  /\ credits' = <<>>
  /\ matched' = {}
  /\ UNCHANGED <<pipeline_vars, clean_vars, manage_vars, app_name, readme_content, credits_content,
                 step, title, description, tags, author, app_info, section_category,
                 section_body, body_lines, line_no, pairs, last_line, last_entry>>

\* Lines 432-445 and 480-482: a blank section is passed over; else the
\* heading gives the category and the body, and _parse_multiline_credits
\* starts on the lines of the body.
BeginSection ==
  /\ ppc = "sections"
  /\ open_sections # <<>>
  /\ LET Begin(section, heading_match) ==
           IF section = <<>>
           THEN /\ open_sections' = Tail(open_sections)
                /\ UNCHANGED <<ppc, section_category, section_body, body_lines>>
           ELSE /\ section_category' =
                     IF heading_match.ok THEN Strip(Group(section, heading_match, 1))
                     ELSE None
                /\ section_body' =
                     IF heading_match.ok
                     THEN Strip(SubSeq(section, Len(Group0(section, heading_match)) + 1,
                                       Len(section)))
                     ELSE section
                /\ body_lines' = SplitOn(section_body', <<"\n">>)
                /\ ppc' = "scan"
                /\ UNCHANGED open_sections
     IN  Begin(Strip(Head(open_sections)),
               ReMatch(SectionHeadingRe, NoFlags, Strip(Head(open_sections))))
  /\ line_no' = 1
  /\ pairs' = <<>>
  /\ UNCHANGED <<pipeline_vars, clean_vars, manage_vars, extract_vars, matched, last_line, last_entry>>

\* A variant of Advance that stays on a line that starts no entry.
MutAdvance(n, found) == IF found THEN n + 2 ELSE n

\* Lines 487-510: `i += 2` after an entry, `i += 1` after any other line.
Advance(n, found) == IF found THEN n + 2 ELSE n + 1

\* Lines 484-510: one iteration of the while loop.  A line that names no
\* entry, or whose next line is no address, is passed; a name and the
\* address on the next line make an entry, and both lines are passed.
ScanLine ==
  /\ ppc = "scan"
  /\ line_no <= Len(body_lines)
  /\ LET Scan(line, name_match, url_match) ==
           IF line # <<>> /\ StartsWith(line, <<"-">>) /\ name_match.ok /\ url_match.ok
           THEN /\ pairs' =
                     Append(pairs,
                            WithCategory(
                              [name |-> Strip(Group(line, name_match, 1)),
                               url |-> Strip(Group(Strip(body_lines[line_no + 1]),
                                                   url_match, 1))],
                              section_category))
                /\ line_no' = Advance(line_no, TRUE)
           ELSE /\ line_no' = Advance(line_no, FALSE)
                /\ UNCHANGED pairs
     IN  Scan(Strip(body_lines[line_no]),
              ReMatch(NameLineRe, NoFlags, Strip(body_lines[line_no])),
              IF line_no + 1 <= Len(body_lines)
              THEN ReMatch(UrlLineRe, NoFlags, Strip(body_lines[line_no + 1]))
              ELSE NoMatch)
  /\ UNCHANGED <<pipeline_vars, clean_vars, manage_vars, extract_vars, ppc, open_sections, matched,
                 section_category, section_body, body_lines, last_line, last_entry>>

\* Lines 512 and 446-454: after the last line, the multi-line entries that
\* were not taken before are added and the section is done; when there is
\* none, the loop over the single lines starts.
ScanReturn ==
  /\ ppc = "scan"
  /\ line_no > Len(body_lines)
  /\ LET Add(acc) ==
           /\ credits' = acc.credits
           /\ matched' = acc.matched_lines
     IN  IF FoundPairs(pairs)
         THEN /\ Add(AddMultiline([credits |-> credits, matched_lines |-> matched],
                                  pairs, 1))
              /\ open_sections' = Tail(open_sections)
              /\ ppc' = "sections"
         ELSE /\ ppc' = "lines"
              /\ UNCHANGED <<credits, matched, open_sections>>
  /\ line_no' = 1
  /\ UNCHANGED <<pipeline_vars, clean_vars, manage_vars, app_name, readme_content, credits_content,
                 step, title, description, tags, author, app_info, section_category,
                 section_body, body_lines, pairs, last_line, last_entry>>

\* Lines 455-469: one iteration of the loop over the single lines.
ParseLine ==
  /\ ppc = "lines"
  /\ line_no <= Len(body_lines)
  /\ last_line' = Strip(body_lines[line_no])
  /\ LET Keep(entry) ==
           /\ last_entry' = entry
           /\ IF entry # NoneDict
              THEN /\ credits' = Append(credits, entry)
                   /\ matched' = matched \cup {last_line'}
              ELSE UNCHANGED <<credits, matched>>
         Parsed(entry) ==
           Keep(IF entry # NoneDict THEN WithCategory(entry, section_category)
                ELSE NoneDict)
     IN  IF PassedOver(last_line') \/ last_line' \in matched
         THEN Keep(NoneDict)
         ELSE Parsed(ParseSingleCreditLine(last_line'))
  /\ line_no' = line_no + 1
  /\ UNCHANGED <<pipeline_vars, clean_vars, manage_vars, app_name, readme_content, credits_content,
                 step, title, description, tags, author, app_info, ppc, open_sections,
                 section_category, section_body, body_lines, pairs>>

\* The end of the loop over the single lines: the section is done.
LinesDone ==
  /\ ppc = "lines"
  /\ line_no > Len(body_lines)
  /\ open_sections' = Tail(open_sections)
  /\ ppc' = "sections"
  /\ UNCHANGED <<pipeline_vars, clean_vars, manage_vars, extract_vars, matched, section_category,
                 section_body, body_lines, line_no, pairs, last_line, last_entry>>

\* Line 471: after the last section, the entries are returned.
ParseReturn ==
  /\ ppc = "sections"
  /\ open_sections = <<>>
  /\ ppc' = "done"
  /\ UNCHANGED <<pipeline_vars, clean_vars, manage_vars, extract_vars, open_sections, matched,
                 section_category, section_body, body_lines, line_no, pairs, last_line,
                 last_entry>>

NextParse ==
  \/ ParseStart \/ BeginSection \/ ScanLine \/ ScanReturn \/ ParseLine \/ LinesDone
  \/ ParseReturn

SpecParse == InitParse /\ [][NextParse]_vars

\* ------------------------------------------------------------------------
\* Runs to their end: a behaviour is runs of the pipeline, or one run of
\* the parser, and a step that can be taken is taken in the end
\* ------------------------------------------------------------------------

NextRuns == (ppc = "none" /\ Next) \/ (ppc # "none" /\ NextParse)

\* A step is possible: the pipeline is in a run or may start one, or the
\* parser has not returned.
CanStep ==
  \/ ppc = "none" /\ (pc # "idle" \/ Len(outputs) < MaxRuns)
  \/ ppc \notin {"none", "done"}

\* The interpreter goes on executing a program that has a statement to
\* execute: weak fairness of the step, with CanStep for its enabling
\* condition.
RunsOn == []<>(~CanStep) \/ []<><<NextRuns>>_vars

SpecRuns == (Init \/ InitParse) /\ [][NextRuns]_vars /\ RunsOn

\* ------------------------------------------------------------------------
\* _clean_description, applied to what it returned
\* ------------------------------------------------------------------------

\* The most pieces of a generated text, and the most times it is cleaned.
MaxCleanPieces == 3
MaxPasses == 2

\* Pieces of texts: emphasis markers, an emphasised word, a link, a list
\* item, a blank and a backtick.
CleanPieces ==
  {Chars("**"), Chars("_a_"), Chars("[a](b)"), Chars("- b"), <<" ">>, <<Backtick>>}

\* The texts made of at most MaxCleanPieces pieces.
CleanTexts == {Flatten(ps) : ps \in UNION {[1..n -> CleanPieces] : n \in 0..MaxCleanPieces}}

InitClean ==
  /\ NoPipeline
  /\ NoExtraction
  /\ NoParse
  /\ NoManage
  /\ raw_text \in CleanTexts
  /\ cleaned = <<>>

\* One more call of _clean_description: on the text, then on what the call
\* before returned.
Clean ==
  /\ Len(cleaned) < MaxPasses
  /\ cleaned' =
       Append(cleaned,
              CleanDescription(IF cleaned = <<>> THEN raw_text ELSE cleaned[Len(cleaned)]))
  /\ UNCHANGED <<pipeline_vars, extract_vars, parse_vars, manage_vars, raw_text>>

NextClean == Clean

SpecClean == InitClean /\ [][NextClean]_vars

\* ------------------------------------------------------------------------
\* manage.py: texts and lines
\* ------------------------------------------------------------------------

\* str.rstrip()
RStrip(s) == IF Inked(s) = {} THEN <<>> ELSE SubSeq(s, 1, Greatest(Inked(s)))

\* str.rstrip("}")
RECURSIVE RStripBrace(_)
RStripBrace(s) ==
  IF s # <<>> /\ s[Len(s)] = "}" THEN RStripBrace(SubSeq(s, 1, Len(s) - 1)) ELSE s

\* len(line) - len(line.lstrip())
Indent(line) == IF Inked(line) = {} THEN Len(line) ELSE Least(Inked(line)) - 1

\* line.count(c) for a character c
Count(line, c) == Cardinality({i \in 1..Len(line) : line[i] = c})

\* f.readlines(): the lines of a text, each with its line end.
ReadLines(content) ==
  LET Ended(parts) ==
        [k \in 1..(IF parts[Len(parts)] = <<>> THEN Len(parts) - 1 ELSE Len(parts)) |->
           IF k < Len(parts) THEN parts[k] \o <<"\n">> ELSE parts[k]]
  IN  Ended(SplitOn(content, <<"\n">>))

\* str.replace(old, new)
Replace(s, old, new) == Join(SplitOn(s, old), new)

\* list.insert(pos, item) for 0 <= pos <= len(list)
Inserted(list, pos, item) ==
  SubSeq(list, 1, pos) \o <<item>> \o SubSeq(list, pos + 1, Len(list))

\* ------------------------------------------------------------------------
\* _generate_service_config
\* ------------------------------------------------------------------------

\* Lines 673 and 684: the key of the service entry of a tool.
ServiceKey(name, app_type) ==
  IF app_type = "static" THEN name \o Chars("-builder") ELSE name

\* Lines 665-693; HTML apps are always static.
GenerateServiceConfig(name, app_type, language) ==
  LET Config(type) ==
        IF type = "static"
        THEN Chars("  ") \o ServiceKey(name, type) \o Chars(":\n")
             \o Chars("    profiles: [\"build\"]\n")
             \o Chars("    build:\n")
             \o Chars("      context: ./apps/") \o name \o Chars("\n")
             \o Chars("      dockerfile: Dockerfile\n")
             \o Chars("    volumes:\n")
             \o Chars("      - \"") \o name \o Chars(":/output\"\n")
             \o Chars("    restart: \"no\"\n")
        ELSE Chars("  ") \o ServiceKey(name, type) \o Chars(":\n")
             \o Chars("    container_name: tools_") \o name \o Chars("\n")
             \o Chars("    build:\n")
             \o Chars("      context: ./apps/") \o name \o Chars("\n")
             \o Chars("      dockerfile: Dockerfile\n")
             \o Chars("    restart: always\n")
             \o Chars("    env_file: ./apps/") \o name \o Chars("/app.env\n")
             \o Chars("    networks:\n")
             \o Chars("      - backend\n")
  IN  Config(IF language = "html" THEN "static" ELSE app_type)

\* ------------------------------------------------------------------------
\* _add_nginx_volume, _remove_nginx_volume
\* ------------------------------------------------------------------------

\* Lines 511-518: no line that starts with "- " follows the first line equal
\* to this one before a line that starts in the first column.
IsLastEntry(lines, line) ==
  LET first == Least({k \in 1..Len(lines) : lines[k] = line})
      IsEntry(k) == StartsWith(Strip(lines[k]), Chars("- "))
      Breaks(k) == Strip(lines[k]) # <<>> /\ lines[k][1] \notin Whitespace
  IN  ~\E j \in (first + 1)..Len(lines) :
         IsEntry(j) /\ \A h \in (first + 1)..(j - 1) : ~Breaks(h)

\* Lines 495-525: the loop over the lines from line k, with the flags and
\* the lines written so far.
RECURSIVE VolumeLoop(_, _, _, _)
VolumeLoop(lines, k, name, st) ==
  IF k > Len(lines) THEN st
  ELSE LET line == lines[k]
           in_nginx ==
             IF StartsWith(Strip(line), Chars("nginx:")) THEN TRUE
             ELSE IF st.in_nginx /\ Strip(line) # <<>> /\ line[1] \notin Whitespace
                  THEN FALSE ELSE st.in_nginx
           left == /\ ~StartsWith(Strip(line), Chars("nginx:"))
                   /\ st.in_nginx /\ Strip(line) # <<>> /\ line[1] \notin Whitespace
           in_volumes ==
             IF in_nginx /\ Strip(line) = Chars("volumes:") THEN TRUE
             ELSE IF left THEN FALSE ELSE st.in_volumes
           adds == /\ in_volumes /\ ~st.added
                   /\ StartsWith(Strip(line), Chars("- "))
                   /\ IsLastEntry(lines, line)
           volume_mount ==
             Chars("      - build_output_") \o name \o Chars(":/usr/share/nginx/html/")
             \o name \o Chars(":ro\n")
       IN  VolumeLoop(lines, k + 1, name,
                      [in_nginx |-> in_nginx, in_volumes |-> in_volumes,
                       added |-> st.added \/ adds,
                       new_lines |-> IF adds THEN st.new_lines \o <<line, volume_mount>>
                                     ELSE Append(st.new_lines, line)])

\* Lines 485-532
AddNginxVolume(content, name) ==
  Flatten(VolumeLoop(ReadLines(content), 1, name,
                     [in_nginx |-> FALSE, in_volumes |-> FALSE, added |-> FALSE,
                      new_lines |-> <<>>]).new_lines)

\* Lines 535-550
RemoveNginxVolume(content, name) ==
  Flatten(SelectSeq(ReadLines(content),
                    LAMBDA line : ~Contains(line, Chars("build_output_") \o name
                                              \o Chars(":/usr/share/nginx/html/") \o name)))

\* ------------------------------------------------------------------------
\* _add_nginx_location, _remove_nginx_location
\* ------------------------------------------------------------------------

\* Lines 569-590: the location block of a tool.
LocationBlock(name, app_type) ==
  IF app_type = "static"
  THEN Chars("\n    location ^~ /") \o name \o Chars("/ {\n")
       \o Chars("        alias /var/www/html/") \o name \o Chars("/;\n")
       \o Chars("        try_files $uri $uri/ /") \o name \o Chars("/index.html;\n")
       \o Chars("    }\n")
  ELSE Chars("\n    location ^~ /") \o name \o Chars(" {\n")
       \o Chars("        proxy_pass http://") \o name \o Chars(":3000;\n")
       \o Chars("        proxy_http_version 1.1;\n")
       \o Chars("        proxy_set_header Upgrade $http_upgrade;\n")
       \o Chars("        proxy_set_header Connection 'upgrade';\n")
       \o Chars("        proxy_set_header Host $host;\n")
       \o Chars("        proxy_set_header X-Real-IP $remote_addr;\n")
       \o Chars("        proxy_set_header X-Forwarded-For $proxy_add_x_forwarded_for;\n")
       \o Chars("        proxy_set_header X-Forwarded-Proto $scheme;\n")
       \o Chars("        proxy_cache_bypass $http_upgrade;\n")
       \o Chars("    }\n")

\* Line 593
InsertMarker == Chars("    # Static asset caching")

\* Lines 594-598: the block goes before the marker, or before the closing
\* brace of the file.
WithLocation(content, name, app_type) ==
  IF Contains(content, InsertMarker)
  THEN Replace(content, InsertMarker, LocationBlock(name, app_type) \o InsertMarker)
  ELSE RStripBrace(RStrip(content)) \o LocationBlock(name, app_type) \o Chars("}\n")

\* Lines 606-614: the loop over the lines from line k (counted from 0, as
\* in the source), with next_block_start (None is -1) and last_if_line.
RECURSIVE RefererLoop(_, _, _)
RefererLoop(lines, k, st) ==
  IF k >= Len(lines) THEN st
  ELSE LET line == lines[k + 1]
       IN  CASE Strip(line) = Chars("location ^~ /_next/ {") ->
                  RefererLoop(lines, k + 1, [st EXCEPT !.next_block_start = k])
             [] OTHER ->
                  IF st.next_block_start # -1
                     /\ StartsWith(Strip(line), Chars("if ($http_referer ~*"))
                  THEN RefererLoop(lines, k + 1, [st EXCEPT !.last_if_line = k])
                  ELSE IF st.next_block_start # -1 /\ Strip(line) = Chars("}")
                          /\ k > st.next_block_start
                       THEN st
                       ELSE RefererLoop(lines, k + 1, st)

\* Lines 601-624: for a static app, the referer rule goes after the last
\* "if" found in the /_next/ location.
WithReferer(content, name) ==
  LET referer_stanza ==
        Chars("        if ($http_referer ~* \"/") \o name \o Chars("/\") {\n")
        \o Chars("            root /var/www/html/") \o name \o Chars(";\n")
        \o Chars("        }\n")
      After(lines, st) ==
        IF st.last_if_line # -1
        THEN Join(Inserted(lines, st.last_if_line + 1, RStrip(referer_stanza)), <<"\n">>)
        ELSE content
      Ruled(lines) ==
        After(lines, RefererLoop(lines, 0, [next_block_start |-> -1, last_if_line |-> -1]))
  IN  IF Contains(content, Chars("    location ^~ /_next/ {"))
      THEN Ruled(SplitOn(content, <<"\n">>))
      ELSE content

\* Lines 552-630: what the nginx config is after _add_nginx_location.
AddNginxLocation(content, name, app_type) ==
  CASE content = None -> content
    [] Contains(content, Chars("location ^~ /") \o name) -> content
    [] app_type = "static" -> WithReferer(WithLocation(content, name, app_type), name)
    [] OTHER -> WithLocation(content, name, app_type)

\* Lines 646-657: the loop over the lines from line k, with skip_block,
\* brace_count and the lines kept so far.
RECURSIVE LocationLoop(_, _, _, _)
LocationLoop(lines, k, name, st) ==
  IF k > Len(lines) THEN st
  ELSE LET line == lines[k]
           starts == Contains(line, Chars("location /") \o name \o Chars("/"))
           skip_block == st.skip_block \/ starts
           brace_count == (IF starts THEN 0 ELSE st.brace_count)
                          + Count(line, "{") - Count(line, "}")
       IN  IF skip_block
           THEN LocationLoop(lines, k + 1, name,
                             [skip_block |-> ~(brace_count <= 0 /\ Contains(line, <<"}">>)),
                              brace_count |-> brace_count,
                              new_lines |-> st.new_lines])
           ELSE LocationLoop(lines, k + 1, name,
                             [st EXCEPT !.new_lines = Append(st.new_lines, line)])

\* Lines 632-663: what the nginx config is after _remove_nginx_location.
RemoveNginxLocation(content, name) ==
  IF content = None THEN content
  ELSE Flatten(LocationLoop(ReadLines(content), 1, name,
                            [skip_block |-> FALSE, brace_count |-> 0,
                             new_lines |-> <<>>]).new_lines)

\* ------------------------------------------------------------------------
\* _add_docker_service, _remove_docker_service
\* ------------------------------------------------------------------------

\* Lines 418-421: the service goes after the last line of the file.
WithService(content, service_config) ==
  Join(SplitOn(RStrip(content), <<"\n">>) \o <<<<>>>> \o SplitOn(service_config, <<"\n">>),
       <<"\n">>) \o <<"\n">>

\* Line 411: f"  {name}:" in content
AlreadyListed(content, name) == Contains(content, Chars("  ") \o name \o Chars(":"))

\* Lines 394-438: the exit status (0 when the function returns) and the two
\* files after _add_docker_service.
AddDockerService(content, nginx, name, app_type, language) ==
  CASE content = None -> [exit_code |-> 1, compose |-> content, nginx_conf |-> nginx]
    [] AlreadyListed(content, name) ->
         [exit_code |-> 0, compose |-> content, nginx_conf |-> nginx]
    [] ~Contains(content, Chars("services:")) ->
         [exit_code |-> 1, compose |-> content, nginx_conf |-> nginx]
    [] OTHER ->
         [exit_code |-> 0,
          compose |->
            IF app_type = "static"
            THEN AddNginxVolume(
                   WithService(content, GenerateServiceConfig(name, app_type, language)),
                   name)
            ELSE WithService(content, GenerateServiceConfig(name, app_type, language)),
          nginx_conf |-> AddNginxLocation(nginx, name, app_type)]

\* Lines 454-473: the loop over the lines from line k, with skip,
\* service_indent and the lines kept so far.
RECURSIVE ServiceLoop(_, _, _, _)
ServiceLoop(lines, k, name, st) ==
  IF k > Len(lines) THEN st
  ELSE LET line == lines[k]
       IN  IF Strip(line) = name \o Chars(":")
           THEN ServiceLoop(lines, k + 1, name,
                            [st EXCEPT !.skip = TRUE, !.service_indent = Indent(line)])
           ELSE IF st.skip /\ (\/ Strip(line) = <<>>
                               \/ StartsWith(Strip(line), <<"#">>)
                               \/ Indent(line) > st.service_indent)
                THEN ServiceLoop(lines, k + 1, name, st)
                ELSE ServiceLoop(lines, k + 1, name,
                                 [st EXCEPT !.skip = FALSE,
                                            !.new_lines = Append(st.new_lines, line)])

\* Lines 440-483: the two files after _remove_docker_service.
RemoveDockerService(content, nginx, name) ==
  IF content = None THEN [compose |-> content, nginx_conf |-> nginx]
  ELSE [compose |->
          RemoveNginxVolume(
            Flatten(ServiceLoop(ReadLines(content), 1, name,
                                [skip |-> FALSE, service_indent |-> 0,
                                 new_lines |-> <<>>]).new_lines),
            name),
        nginx_conf |-> RemoveNginxLocation(nginx, name)]

\* ------------------------------------------------------------------------
\* new_tool, remove_tool
\* ------------------------------------------------------------------------

\* The most commands of a run of the model.
MaxCommands == 3

\* The names of tools, the languages of new_tool, and the answers to the
\* question of remove_tool.
ToolNames == {Chars("a"), Chars("b")}
Languages == {"js", "html"}
Responses == {Chars("Y"), Chars("n")}

\* A docker-compose.yml with the nginx service, and one without services.
BaseCompose ==
  Chars("services:\n  nginx:\n    image: nginx\n    volumes:\n")
  \o Chars("      - ./nginx:/etc/nginx:ro\n")
EmptyCompose == Chars("version: \"3\"\n")

\* An nginx config with the /_next/ location and the marker, and one with
\* neither.
BaseNginx ==
  Chars("server {\n    listen 80;\n    location ^~ /_next/ {\n")
  \o Chars("        if ($http_referer ~* \"/x/\") {\n            root /var/www/html/x;\n")
  \o Chars("        }\n    }\n    # Static asset caching\n")
  \o Chars("    location ~* \\.(js)$ {\n    }\n}\n")
PlainNginx == Chars("server {\n    listen 80;\n}\n")

InitManage ==
  /\ NoPipeline
  /\ NoExtraction
  /\ NoParse
  /\ NoClean
  /\ tool_dirs = [n \in ToolNames |-> NoneDict]
  /\ compose \in {BaseCompose, EmptyCompose, None}
  /\ nginx_conf \in {BaseNginx, PlainNginx, None}
  /\ commands = <<>>

\* Lines 37-41: the type of a new tool.
AppType(language, server) ==
  IF language = "js" THEN (IF server THEN "server" ELSE "static") ELSE "static"

\* Lines 27-53: new_tool(name, language, server).  The directory is made
\* before _add_docker_service runs, and stays when that exits.
NewTool ==
  /\ Len(commands) < MaxCommands
  /\ \E name \in ToolNames, language \in Languages, server \in BOOLEAN :
       LET Ran(status) ==
             [command |-> "new", name |-> name, app_type |-> AppType(language, server),
              force |-> FALSE, done |-> status = 0, exit_code |-> status]
           Finish(added) ==
             /\ tool_dirs' = [tool_dirs EXCEPT ![name] =
                                [language |-> language,
                                 app_type |-> AppType(language, server)]]
             /\ compose' = added.compose
             /\ nginx_conf' = added.nginx_conf
             /\ commands' = Append(commands, Ran(added.exit_code))
       IN  IF tool_dirs[name] # NoneDict
           THEN /\ commands' = Append(commands, Ran(1))
                /\ UNCHANGED <<tool_dirs, compose, nginx_conf>>
           ELSE Finish(AddDockerService(compose, nginx_conf, name,
                                        AppType(language, server), language))
  /\ UNCHANGED <<pipeline_vars, extract_vars, parse_vars, clean_vars>>

\* Lines 55-78: remove_tool(name, force), with the answer given when it
\* asks.
RemoveTool ==
  /\ Len(commands) < MaxCommands
  /\ \E name \in ToolNames, force \in BOOLEAN, response \in Responses :
       LET Ran(done, status) ==
             [command |-> "remove", name |-> name,
              app_type |-> IF tool_dirs[name] = NoneDict THEN "none"
                           ELSE tool_dirs[name].app_type,
              force |-> force, done |-> done, exit_code |-> status]
           Finish(removed) ==
             /\ tool_dirs' = [tool_dirs EXCEPT ![name] = NoneDict]
             /\ compose' = removed.compose
             /\ nginx_conf' = removed.nginx_conf
             /\ commands' = Append(commands, Ran(TRUE, 0))
       IN  IF tool_dirs[name] = NoneDict
           THEN /\ commands' = Append(commands, Ran(FALSE, 1))
                /\ UNCHANGED <<tool_dirs, compose, nginx_conf>>
           ELSE IF ~force /\ Lower(response) \notin {Chars("y"), Chars("yes")}
                THEN /\ commands' = Append(commands, Ran(FALSE, 0))
                     /\ UNCHANGED <<tool_dirs, compose, nginx_conf>>
                ELSE Finish(RemoveDockerService(compose, nginx_conf, name))
  /\ UNCHANGED <<pipeline_vars, extract_vars, parse_vars, clean_vars>>

NextManage == NewTool \/ RemoveTool

SpecManage == InitManage /\ [][NextManage]_vars


\* ------------------------------------------------------------------------
\* Properties of the pipeline (Spec)
\* ------------------------------------------------------------------------

\* C1: in every output written, no record of the apps array is for an
\* application whose README.md does not exist.
C1_NoRecordWithoutReadme ==
  \A k \in 1..Len(outputs) : \A i \in 1..Len(outputs[k].apps) :
    fs[outputs[k].apps[i].name].readme # None

\* An output with a record was written while an application that was
\* discovered (it has a Dockerfile) has no README.md.
C1_Witness ==
  /\ Len(outputs) > 0
  /\ outputs[1].total_apps > 0
  /\ \E n \in Names : fs[n] # Absent /\ IsApp(n, fs[n]) /\ fs[n].readme = None

\* C2: in every record of every output written, has_credits is true if and
\* only if the credits list is not empty, whether the credits came from the
\* attribution document, from the GitHub links of the primary document, or
\* from neither.
C2_HasCreditsIffNonEmpty ==
  \A k \in 1..Len(outputs) : \A i \in 1..Len(outputs[k].apps) :
    outputs[k].apps[i].has_credits <=> (outputs[k].apps[i].credits # <<>>)

\* An output holds a record whose credits are the GitHub users of its
\* primary document (it has no attribution document) and a record without
\* credits.
C2_Witness ==
  \E k \in 1..Len(outputs) : \E i, j \in 1..Len(outputs[k].apps) :
    /\ outputs[k].apps[i].has_credits
    /\ fs[outputs[k].apps[i].name].credits = None
    /\ ~outputs[k].apps[j].has_credits

\* C8: the runs of the pipeline over one repository write the same apps
\* array (the same records with the same fields in the same order), in
\* whatever order the directory is listed; only generated_at differs.
C8_SameAppsEveryRun ==
  \A i, j \in 1..Len(outputs) : outputs[i].apps = outputs[j].apps

\* Two runs have written two records each, at different times, and the
\* directory was last listed in another order than the sorted one.
C8_Witness ==
  /\ Len(outputs) = 2
  /\ Len(outputs[2].apps) = 2
  /\ outputs[1].generated_at # outputs[2].generated_at
  /\ apps # Sorted(apps)

\* ------------------------------------------------------------------------
\* Properties of the extractors (SpecExtract)
\* ------------------------------------------------------------------------

\* C3: the tags _extract_tags returned are at most 10, and no two of them
\* are equal when compared without regard to case.
C3_TagsBoundedAndDistinct ==
  step \in {"author", "credits", "record", "done"} =>
    /\ Len(tags) <= MaxTags
    /\ \A i, j \in 1..Len(tags) : i # j => Lower(tags[i]) # Lower(tags[j])

\* C4 as stated: a description that is not empty starts with an upper-case
\* letter and ends with a period.
C4_UpperCaseLetterFirst ==
  (step \in {"tags", "author", "credits", "record", "done"} /\ description # <<>>) =>
    /\ IsUpperChar(description[1])
    /\ description[Len(description)] = "."

\* C4 as the code has it: a description that is not empty starts with a
\* character that upper-casing leaves as it is (an upper-case letter, or a
\* digit or another character without case) and ends with a period.
C4_CapitalizedFirst ==
  (step \in {"tags", "author", "credits", "record", "done"} /\ description # <<>>) =>
    /\ UpperChar(description[1]) = <<description[1]>>
    /\ description[Len(description)] = "."

\* A description was extracted that starts with a digit.
C4_Witness ==
  /\ step = "done"
  /\ description # <<>>
  /\ description[1] \in Digits

\* C5: the description of every record is not empty.
C5_DescriptionNonEmpty ==
  step = "done" => app_info.description # <<>>

\* C6: the title _extract_title returned is not empty.
C6_TitleNonEmpty ==
  step \in {"description", "tags", "author", "credits", "record", "done"} => title # <<>>

\* C7: no two entries of the credits of a record have the same name and
\* the same url.
C7_CreditsDistinct ==
  step = "done" =>
    \A i, j \in 1..Len(app_info.credits) :
      i # j => <<app_info.credits[i].name, app_info.credits[i].url>>
               # <<app_info.credits[j].name, app_info.credits[j].url>>

\* C9: the author is what the first of these gives that gives one: the
\* Author(s) section of the attribution document, the attribution document
\* as a whole, the first GitHub user of the primary document; the record has
\* that author, and no author field when none of them gives one.
C9_AuthorPrecedence ==
  step = "done" =>
    /\ author = IF SectionAuthor(credits_content) # NoneDict
                THEN SectionAuthor(credits_content)
                ELSE IF DocumentAuthor(credits_content) # NoneDict
                THEN DocumentAuthor(credits_content)
                ELSE ReadmeAuthor(readme_content)
    /\ ("author" \in DOMAIN app_info) <=> (author # NoneDict)
    /\ author # NoneDict => app_info.author = author

\* A record has the author of the Author(s) section although the primary
\* document links to another GitHub user.
C9_Witness ==
  /\ step = "done"
  /\ SectionAuthor(credits_content) # NoneDict
  /\ ReadmeAuthor(readme_content) # NoneDict
  /\ ReadmeAuthor(readme_content) # SectionAuthor(credits_content)
  /\ app_info.author = SectionAuthor(credits_content)

\* C10: when the attribution document gives entries, the credits are exactly
\* those entries and none of the GitHub users of the primary document is
\* among them; the credits are anything else only when the attribution
\* document gives no entry, and then they are the GitHub users of the
\* primary document.
C10_FallbackOnlyWithoutEntries ==
  step \in {"record", "done"} =>
    /\ StructuredCredits(credits_content) # <<>> =>
         /\ credits = StructuredCredits(credits_content)
         /\ \A k \in 1..Len(credits) :
              ~InList(credits[k], ExtractGithubUsernames(readme_content))
    /\ credits # StructuredCredits(credits_content) =>
         /\ StructuredCredits(credits_content) = <<>>
         /\ credits = ExtractGithubUsernames(readme_content)

\* The attribution document gave entries while the primary document links
\* to GitHub users.
C10_Witness ==
  /\ step = "done"
  /\ StructuredCredits(credits_content) # <<>>
  /\ ExtractGithubUsernames(readme_content) # <<>>
  /\ app_info.credits = StructuredCredits(credits_content)

\* ------------------------------------------------------------------------
\* Order, skipped applications and failed reads (Spec)
\* ------------------------------------------------------------------------

\* C11: in every output written, the records of the apps array are in
\* ascending order of their names: no record's name is less than the name
\* of a record before it.
C11_AscendingNames ==
  \A k \in 1..Len(outputs) :
    \A i, j \in 1..Len(outputs[k].apps) :
      i < j => ~StrLess(outputs[k].apps[j].name, outputs[k].apps[i].name)

\* An output of two records whose applications were discovered in
\* descending order.
C11_Witness ==
  /\ Len(outputs) > 0
  /\ Len(outputs[Len(outputs)].apps) = 2
  /\ Len(apps) = 2
  /\ StrLess(apps[2], apps[1])

\* C12: when a run has ended and no document of a discovered application
\* was unreadable, the run has exited with status 0 and written its output,
\* and every discovered application whose README.md exists has exactly one
\* record in it, whatever applications lack a README.md.
C12_OnlyMissingSkipped ==
  (/\ pc = "idle"
   /\ exit_code # <<>>
   /\ \A n \in Names :
        (fs[n] # Absent /\ fs[n].readme # None) => ReadError(n, fs[n]) = NoneDict)
  => /\ exit_code = <<0>>
     /\ Len(outputs) > 0
     /\ \A n \in Names :
          (/\ apps_dir_exists
           /\ fs[n] # Absent
           /\ IsApp(n, fs[n])
           /\ fs[n].readme # None)
          => Cardinality({i \in 1..Len(outputs[Len(outputs)].apps) :
                            outputs[Len(outputs)].apps[i].name = n}) = 1

\* A run that ended with status 0 over an application without a README.md
\* that is sorted after one with a README.md.
C12_Witness ==
  /\ pc = "idle"
  /\ exit_code = <<0>>
  /\ Len(apps) = 2
  /\ fs[Sorted(apps)[1]].readme # None
  /\ fs[Sorted(apps)[2]].readme = None
  /\ outputs[Len(outputs)].total_apps = 1

\* C13: when a run has ended and a document of a discovered application
\* with a README.md was unreadable, the run has exited with status 1, the
\* error reported is the one raised by reading such a document, and no
\* output was written.
C13_ReadErrorIsFatal ==
  (/\ pc = "idle"
   /\ exit_code # <<>>
   /\ \E n \in Names :
        /\ fs[n] # Absent
        /\ IsApp(n, fs[n])
        /\ fs[n].readme # None
        /\ ReadError(n, fs[n]) # NoneDict)
  => /\ exit_code = <<1>>
     /\ outputs = <<>>
     /\ \E n \in Names :
          /\ fs[n] # Absent
          /\ IsApp(n, fs[n])
          /\ fs[n].readme # None
          /\ error # NoneDict
          /\ error = ReadError(n, fs[n])

\* A run that ended with status 1 on an unreadable CREDITS.md after it had
\* made the record of another application.
C13_Witness ==
  /\ pc = "idle"
  /\ exit_code = <<1>>
  /\ colophon_data # <<>>
  /\ error # NoneDict
  /\ error.filename = Chars("tool_a/CREDITS.md")

\* ------------------------------------------------------------------------
\* The description cascade (SpecExtract)
\* ------------------------------------------------------------------------

\* C14: when the description line of a document in the format of
\* simonw/tools is there but nothing is left of it after cleaning, the
\* description is the one the next strategies give (the sections, then the
\* first paragraph, then the default), as for a document without that line.
C14_EmptyCandidateFallsThrough ==
  (/\ step \in {"tags", "author", "credits", "record", "done"}
   /\ SimonwLine(SplitOn(readme_content, <<"\n">>)) # <<>>
   /\ CleanDescription(SimonwLine(SplitOn(readme_content, <<"\n">>))) = <<>>)
  => description = SectionOrParagraph(WithoutTitle(readme_content))

\* ------------------------------------------------------------------------
\* The entries of the credits (SpecExtract)
\* ------------------------------------------------------------------------

\* C15: every entry of the credits of a record has a name that is not
\* empty, a url field and a description field.
C15_EntryFields ==
  step = "done" =>
    \A i \in 1..Len(app_info.credits) :
      /\ app_info.credits[i].name # <<>>
      /\ "url" \in DOMAIN app_info.credits[i]
      /\ "description" \in DOMAIN app_info.credits[i]

\* ------------------------------------------------------------------------
\* Lines with an e-word, and sections with multi-line entries (SpecParse)
\* ------------------------------------------------------------------------

\* C18, as the code has it: no entry without a link has a name in which a
\* word starts with e- or E- and a word character.  (A line with such a
\* word in its name makes no entry; one with such a word after the
\* separator only makes an entry.)
C18_NoEWordInName ==
  (last_entry # NoneDict /\ last_entry.url = <<>>)
  => ~\E k \in 1..(Len(last_entry.name) - 2) :
         /\ last_entry.name[k] \in {"e", "E"}
         /\ last_entry.name[k + 1] = "-"
         /\ IsWordChar(last_entry.name[k + 2])
         /\ (k = 1 \/ ~IsWordChar(last_entry.name[k - 1]))

\* The line "- e-commerce demo - a shop" was matched by the pattern without
\* a link and made no entry.
C18_Witness ==
  /\ ppc = "lines"
  /\ last_line = Chars("- e-commerce demo - a shop")
  /\ ReMatch(CreditLineFormats[4].re, NoFlags, last_line).ok
  /\ last_line \notin matched
  /\ last_entry = NoneDict

\* C18, as claimed: a line in which a word starts with e- or E- and a word
\* character makes no entry without a link.
C18_NoEntryForEWordLine ==
  (\E k \in 1..(Len(last_line) - 2) :
     /\ last_line[k] \in {"e", "E"}
     /\ last_line[k + 1] = "-"
     /\ IsWordChar(last_line[k + 2])
     /\ (k = 1 \/ ~IsWordChar(last_line[k - 1])))
  => ~(last_entry # NoneDict /\ last_entry.url = <<>>)

\* C20: when the scan of a section ends with multi-line entries, the
\* section is done at once: the entries so far are kept, every entry added
\* is one of the multi-line entries, and every multi-line entry has its name
\* and address among the entries.  The loop over the single lines starts,
\* and adds entries, only when the scan found no multi-line entry.
C20_PairsTakePriority ==
  [][/\ (ppc = "scan" /\ ppc' # "scan" /\ pairs # <<>>)
        => /\ ppc' = "sections"
           /\ open_sections' = Tail(open_sections)
           /\ Len(credits') >= Len(credits)
           /\ SubSeq(credits', 1, Len(credits)) = credits
           /\ \A k \in (Len(credits) + 1)..Len(credits') :
                \E j \in 1..Len(pairs) : credits'[k] = pairs[j]
           /\ \A j \in 1..Len(pairs) :
                \E k \in 1..Len(credits') :
                  /\ credits'[k].name = pairs[j].name
                  /\ credits'[k].url = pairs[j].url
     /\ ppc' = "lines" => pairs' = <<>>
     /\ (ppc = "lines" /\ credits' # credits) => pairs = <<>>]_vars

\* The document whose first section has a multi-line entry and an entry
\* with a link, and whose second section has that entry with a link: the
\* first section gave the multi-line entry only, the second the other.
C20_Witness ==
  /\ ppc = "done"
  /\ credits_content = PairsAndLinks
  /\ Len(credits) = 2
  /\ credits[1] = [name |-> Chars("Tool"), url |-> Chars("https://t.io"),
                   category |-> <<"A">>]
  /\ credits[2].name = Chars("Lib")
  /\ credits[2].category = <<"B">>

\* ------------------------------------------------------------------------
\* Cleaning a cleaned text (SpecClean)
\* ------------------------------------------------------------------------

\* C17: _clean_description applied to what it returned returns it
\* unchanged.
C17_CleanIdempotent == Len(cleaned) >= 2 => cleaned[2] = cleaned[1]

\* ------------------------------------------------------------------------
\* Independence of the records (Spec), and termination (SpecRuns)
\* ------------------------------------------------------------------------

C19_Terminates ==
  /\ (pc # "idle") ~> (pc = "idle")
  /\ (ppc = "start") ~> (ppc = "done")
  /\ [][(pc = "loop" /\ pc' = "loop") => todo' = Tail(todo)]_vars
  /\ [][(ppc = "scan" /\ ppc' = "scan") => line_no' > line_no]_vars
  /\ [](ppc = "scan" /\ line_no <= Len(body_lines)
          => Advance(line_no, TRUE) > line_no /\ Advance(line_no, FALSE) > line_no)

\* The scan of a body of four lines is at its end after two entries.
C19_Witness ==
  /\ ppc = "scan"
  /\ Len(body_lines) = 4
  /\ line_no > Len(body_lines)
  /\ Len(pairs) = 2

\* ------------------------------------------------------------------------
\* The link-last format of a credit line (SpecParse)
\* ------------------------------------------------------------------------

\* C21: the entry made from a line that has the link-last shape (and not
\* the link-first shape) has for its name the text before the separator,
\* for its description the text between the separator and the link, and for
\* its url the target of the link.
C21_LinkLastFields ==
  LET link_last == ReMatch(CreditLineFormats[3].re, NoFlags, last_line)
  IN  (/\ last_entry # NoneDict
       /\ link_last.ok
       /\ ~ReMatch(CreditLineFormats[1].re, NoFlags, last_line).ok)
        => /\ last_entry.name = Strip(Group(last_line, link_last, 1))
           /\ last_entry.description = Strip(Group(last_line, link_last, 2))
           /\ last_entry.url = Strip(Group(last_line, link_last, 4))

\* ------------------------------------------------------------------------
\* The order of the tags (SpecExtract)
\* ------------------------------------------------------------------------

\* C22: the tags returned are the first ten, in their order, of the
\* candidates that differ when trimmed and compared without regard to case,
\* each standing where it first occurs in the items of the tag section
\* followed by the badge alt-texts followed by the catalog matches in
\* catalog order.
C22_DiscoveryOrder ==
  step = "author" =>
    LET merged == SectionTags(readme_content) \o BadgeTags(readme_content)
                    \o CatalogTags(readme_content)
        keys == [i \in 1..Len(merged) |-> Lower(Strip(merged[i]))]
        first_seen == SelectSeq(Indices(Len(keys)),
                                LAMBDA i : /\ keys[i] # <<>>
                                           /\ \A j \in 1..(i - 1) : keys[j] # keys[i])
    IN  /\ Len(tags) = IF Len(first_seen) > MaxTags THEN MaxTags ELSE Len(first_seen)
        /\ \A k \in 1..Len(tags) : tags[k] = Title(keys[first_seen[k]])

\* Ten tags of eleven candidates: seven items of the section, the two
\* badges, and the first of the two catalog matches that are no badge.
C22_Witness ==
  /\ step = "author"
  /\ Len(SectionTags(readme_content)) = 7
  /\ Len(BadgeTags(readme_content)) = 2
  /\ Len(CatalogTags(readme_content)) = 3
  /\ Len(tags) = MaxTags
  /\ tags[8] = Chars("Build")
  /\ tags[9] = Chars("Docker")
  /\ tags[10] = Chars("Yaml")

\* ------------------------------------------------------------------------
\* The count of the output (Spec)
\* ------------------------------------------------------------------------

\* C26: in every output written, total_apps is the number of records of
\* the apps array, and that is the number of applications discovered less
\* the number of those that have no README.md.
C26_TotalIsDiscoveredLessSkipped ==
  \A k \in 1..Len(outputs) :
    /\ outputs[k].total_apps = Len(outputs[k].apps)
    /\ Len(outputs[k].apps) =
         Cardinality({n \in Names : apps_dir_exists /\ fs[n] # Absent /\ IsApp(n, fs[n])})
         - Cardinality({n \in Names : /\ apps_dir_exists /\ fs[n] # Absent
                                      /\ IsApp(n, fs[n]) /\ fs[n].readme = None})

\* An output that counts one application where two were discovered.
C26_Witness ==
  /\ Len(outputs) > 0
  /\ outputs[Len(outputs)].total_apps = 1
  /\ Len(apps) = 2

\* ------------------------------------------------------------------------
\* Removing what new_tool added (SpecManage)
\* ------------------------------------------------------------------------

\* The lines of docker-compose.yml that are the key of a service entry
\* generated for the tool, of either type.
ServiceEntries(content, name) ==
  LET KeysIn(lines) ==
        {k \in 1..Len(lines) :
           Strip(lines[k]) \in {ServiceKey(name, "static") \o <<":">>,
                                ServiceKey(name, "server") \o <<":">>}}
  IN  KeysIn(ReadLines(content))

\* The lines of the nginx config that open a location block for /<name> or
\* /<name>/.
LocationBlocks(content, name) ==
  LET OpenedIn(lines) ==
        {k \in 1..Len(lines) :
           /\ StartsWith(Strip(lines[k]), Chars("location "))
           /\ \/ Contains(lines[k], Chars(" /") \o name \o Chars(" "))
              \/ Contains(lines[k], Chars(" /") \o name \o Chars("/ "))}
  IN  OpenedIn(ReadLines(content))

\* The last command removed a tool that an earlier new_tool had made.
RemovedNewTool ==
  /\ commands # <<>>
  /\ commands[Len(commands)].command = "remove"
  /\ commands[Len(commands)].done
  /\ \E k \in 1..(Len(commands) - 1) :
       /\ commands[k].command = "new"
       /\ commands[k].done
       /\ commands[k].name = commands[Len(commands)].name

\* C23: after new_tool and then a remove_tool of the same name that was
\* forced or confirmed, docker-compose.yml has no service entry of the
\* tool, neither <name>-builder nor <name>.
C23_RemovedServiceGone ==
  (RemovedNewTool /\ compose # None)
    => ServiceEntries(compose, commands[Len(commands)].name) = {}

\* C24: after _add_nginx_location and then _remove_nginx_location for the
\* same name (as new_tool and remove_tool call them), the nginx config has
\* no location block for the tool.
C24_RemovedLocationGone ==
  (RemovedNewTool /\ compose # None /\ nginx_conf # None)
    => LocationBlocks(nginx_conf, commands[Len(commands)].name) = {}

\* C25: while every remove_tool was forced, docker-compose.yml has at most
\* one service entry for each tool.
C25_OneServicePerTool ==
  (compose # None /\ \A k \in 1..Len(commands) :
                       commands[k].command = "remove" => commands[k].force)
    => \A n \in ToolNames : Cardinality(ServiceEntries(compose, n)) <= 1

====
